---- MODULE Spec2Model ----
(***************************************************************************)
(* A model of the question/answer generation core of AIE_final_project:    *)
(*   - QAGenerator.generate_qa      (src/src/services/qa_generator.py)     *)
(*   - QAGenerator._parse_qa_response                                      *)
(*   - submit_answer, the grader    (src/src/api/main.py)                  *)
(*   - the choice display pattern   (src/streamlit_app.py)                 *)
(*                                                                         *)
(* A Python str is a sequence of characters; a character is a one-token    *)
(* string.  ASCII characters stand for themselves, the others are named by *)
(* their code point ("U8CEA" is U+8CEA).                                   *)
(***************************************************************************)
EXTENDS Naturals, Sequences, FiniteSets

\* ------------------------------------------------------------ characters

SP  == " "
TAB == "\t"
NL  == "\n"
\* U+3000, the full-width (ideographic) space
ISP == "U3000"

\* What str.strip() strips and what \s matches (Python 3, str patterns).
Whitespace == {SP, TAB, NL, ISP}

UpperAlpha == <<"A","B","C","D","E","F","G","H","I","J","K","L","M",
                "N","O","P","Q","R","S","T","U","V","W","X","Y","Z">>
LowerAlpha == <<"a","b","c","d","e","f","g","h","i","j","k","l","m",
                "n","o","p","q","r","s","t","u","v","w","x","y","z">>

LowerCh(c) ==
  IF \E i \in 1..Len(UpperAlpha) : UpperAlpha[i] = c
  THEN LowerAlpha[CHOOSE i \in 1..Len(UpperAlpha) : UpperAlpha[i] = c]
  ELSE c

UpperCh(c) ==
  IF \E i \in 1..Len(LowerAlpha) : LowerAlpha[i] = c
  THEN UpperAlpha[CHOOSE i \in 1..Len(LowerAlpha) : LowerAlpha[i] = c]
  ELSE c

\* ------------------------------------------------------------ str methods

Min(a, b) == IF a < b THEN a ELSE b

\* s[:n]
Prefix(s, n) == SubSeq(s, 1, Min(n, Len(s)))

\* s[i:] with i a 1-based position
From(s, i) == SubSeq(s, i, Len(s))

\* s.lower(), s.upper()
Lower(s) == [i \in 1..Len(s) |-> LowerCh(s[i])]
Upper(s) == [i \in 1..Len(s) |-> UpperCh(s[i])]

\* s.replace(c, "") for a one-character c
Remove(s, c) == SelectSeq(s, LAMBDA x : x # c)

\* s.strip()
Strip(s) ==
  LET keep == {i \in 1..Len(s) : s[i] \notin Whitespace}
  IN  IF keep = {} THEN <<>>
      ELSE LET lo == CHOOSE i \in keep : \A j \in keep : i <= j
               hi == CHOOSE i \in keep : \A j \in keep : j <= i
           IN  SubSeq(s, lo, hi)

\* s.startswith(p)
StartsWith(s, p) == Len(s) >= Len(p) /\ SubSeq(s, 1, Len(p)) = p

\* s.split(c): the pieces between the occurrences of the character c
RECURSIVE SplitFrom(_, _, _)
SplitFrom(s, c, i) ==
  LET hits == {j \in i..Len(s) : s[j] = c}
  IN  IF hits = {} THEN <<SubSeq(s, i, Len(s))>>
      ELSE LET j == CHOOSE k \in hits : \A m \in hits : k <= m
           IN  <<SubSeq(s, i, j - 1)>> \o SplitFrom(s, c, j + 1)

Split(s, c) == SplitFrom(s, c, 1)

\* s.split(':', 1)[1] of a string that holds a colon
AfterFirstColon(s) ==
  LET hits == {j \in 1..Len(s) : s[j] = ":"}
      j    == CHOOSE k \in hits : \A m \in hits : k <= m
  IN  SubSeq(s, j + 1, Len(s))

\* sep.join(parts)
RECURSIVE Join(_, _)
Join(parts, sep) ==
  IF parts = <<>> THEN <<>>
  ELSE IF Len(parts) = 1 THEN parts[1]
  ELSE parts[1] \o sep \o Join(Tail(parts), sep)

\* c repeated n times
Rep(c, n) == [i \in 1..n |-> c]

\* ------------------------------------------------ _parse_qa_response

\* The line prefixes of the textual contract.
QuestionMarker    == <<"U8CEA","U554F",":">>
QuestionMarkerEn  == <<"Q",":">>
AnswerMarker      == <<"U56DE","U7B54",":">>
AnswerMarkerEn    == <<"A",":">>
CorrectMarker     == <<"U6B63","U89E3",":">>
ExplanationMarker == <<"U89E3","U8AAC",":">>
ChoiceLetters     == <<"A","B","C","D">>
ChoicePrefixes    == {<<ChoiceLetters[i], ")">> : i \in 1..Len(ChoiceLetters)}

\* The two placeholder answers.
NoAnswerText ==
  <<"U56DE","U7B54","U304C","U898B","U3064","U304B","U308A","U307E","U305B",
    "U3093","U3067","U3057","U305F","U3002">>
SeeMaterialText ==
  <<"U3053","U306E","U8CEA","U554F","U306B","U3064","U3044","U3066","U306F",
    "U8B1B","U7FA9","U8CC7","U6599","U3092","U53C2","U7167","U3057","U3066",
    "U304F","U3060","U3055","U3044","U3002">>
Ellipsis == <<".",".",".">>

\* An optional value is a sequence of length at most one: None is the empty
\* one.  A model reply is optional too: Str(s) is the str s, NotStr a reply
\* that is not a str.
None    == <<>>
Some(v) == <<v>>
NotStr  == <<>>
Str(s)  == <<s>>

\* The fields the loop over the lines fills in.
EmptyFields ==
  [question |-> <<>>, answer |-> <<>>, choices |-> <<>>,
   correct_answer |-> <<>>, explanation |-> <<>>]

\* One pass of the body of "for line in lines".
ParseLine(acc, raw, question_type) ==
  LET line == Strip(raw)
  IN  IF line = <<>> THEN acc
      ELSE IF StartsWith(line, QuestionMarker) \/ StartsWith(line, QuestionMarkerEn)
        THEN [acc EXCEPT !.question = Strip(AfterFirstColon(line))]
      ELSE IF StartsWith(line, AnswerMarker) \/ StartsWith(line, AnswerMarkerEn)
        THEN [acc EXCEPT !.answer = Strip(AfterFirstColon(line))]
      ELSE IF StartsWith(line, CorrectMarker)
        THEN [acc EXCEPT !.correct_answer = Strip(AfterFirstColon(line))]
      ELSE IF StartsWith(line, ExplanationMarker)
        THEN [acc EXCEPT !.explanation = Strip(AfterFirstColon(line))]
      ELSE IF question_type = "multiple_choice"
              /\ \E p \in ChoicePrefixes : StartsWith(line, p)
        THEN [acc EXCEPT !.choices = Append(@, line)]
      ELSE acc

RECURSIVE ParseLines(_, _, _, _)
ParseLines(lines, i, acc, question_type) ==
  IF i > Len(lines) THEN acc
  ELSE ParseLines(lines, i + 1, ParseLine(acc, lines[i], question_type), question_type)

\* The composite answer of a multiple_choice item with at least one choice.
FullAnswer(f) ==
  Join(f.choices, <<NL>>)
    \o (IF f.correct_answer # <<>>
        THEN <<NL, NL>> \o CorrectMarker \o <<SP>> \o f.correct_answer ELSE <<>>)
    \o (IF f.explanation # <<>>
        THEN <<NL>> \o ExplanationMarker \o <<SP>> \o f.explanation ELSE <<>>)

\* The answer field: composite, the plain answer, or the placeholder.
ComposeAnswer(f, question_type) ==
  IF question_type = "multiple_choice" /\ f.choices # <<>> THEN FullAnswer(f)
  ELSE IF f.answer = <<>> THEN NoAnswerText
  ELSE f.answer

FallbackLen == 200

\* A degraded item that keeps the whole reply as its question.
FallbackItemUntruncated(response, difficulty, question_type) ==
  [question      |-> Strip(response),
   answer        |-> SeeMaterialText,
   difficulty    |-> difficulty,
   question_type |-> question_type]

\* The degraded item of a reply without a question line.
FallbackItem(response, difficulty, question_type) ==
  [question      |-> IF Len(response) > FallbackLen
                     THEN Prefix(Strip(response), FallbackLen) \o Ellipsis
                     ELSE Strip(response),
   answer        |-> SeeMaterialText,
   difficulty    |-> difficulty,
   question_type |-> question_type]

ParsedItem(f, difficulty, question_type) ==
  LET base == [question      |-> f.question,
               answer        |-> ComposeAnswer(f, question_type),
               difficulty    |-> difficulty,
               question_type |-> question_type]
  IN  IF question_type = "multiple_choice"
      THEN [question       |-> base.question,
            answer         |-> base.answer,
            difficulty     |-> base.difficulty,
            question_type  |-> base.question_type,
            choices        |-> f.choices,
            correct_answer |-> f.correct_answer,
            explanation    |-> f.explanation]
      ELSE base

\* _parse_qa_response: a reply that is not a str makes response.strip() raise,
\* which the method's own handler turns into None.
ParseQAResponse(reply, difficulty, question_type) ==
  IF reply = NotStr THEN None
  ELSE LET response == reply[1]
           lines    == Split(Strip(response), NL)
           f        == ParseLines(lines, 1, EmptyFields, question_type)
       IN  IF f.question # <<>>
           THEN Some(ParsedItem(f, difficulty, question_type))
           ELSE Some(FallbackItem(response, difficulty, question_type))

\* ------------------------------------------------------- generate_qa

timeout_seconds    == 120
AttemptsMultiplier == 2
MaxAttemptsCap     == 10
DedupKeyLen        == 30
DedupMinLen        == 5

DefaultQuestionTypes == <<"multiple_choice", "short_answer">>

\* qa_pair["question"][:30].strip().lower().replace(" ", "").replace("　", "")
QuestionKey(question) ==
  Remove(Remove(Lower(Strip(Prefix(question, DedupKeyLen))), SP), ISP)

\* A duplicate check that forgets the set of accepted keys.
AcceptsWithoutDedup(question_key, seen) == Len(question_key) > DedupMinLen

\* A duplicate check that lets keys of length <= 5 through.
AcceptsShortKeys(question_key, seen) ==
  ~(question_key \in seen /\ Len(question_key) > DedupMinLen)

\* The test that guards the append of a parsed item.
Accepts(question_key, seen) ==
  question_key \notin seen /\ Len(question_key) > DedupMinLen

\* An attempt budget without the cap of ten.
MaxAttemptsUncapped(n) == n * AttemptsMultiplier

\* min(num_questions * 2, 10)
MaxAttempts(n) == Min(n * AttemptsMultiplier, MaxAttemptsCap)

\* A while condition that is off by one on the quota.
LoopConditionOffByOne(qas, n, att, max_att) == Len(qas) <= n /\ att < max_att

\* The condition of the while loop.
LoopCondition(qas, n, att, max_att) == Len(qas) < n /\ att < max_att

\* A timeout test that takes the budget for milliseconds.
TimedOutWrongUnit(t) == t > timeout_seconds * 1000

\* time.time() - start_time > timeout_seconds
TimedOut(t) == t > timeout_seconds

VARIABLES
  pc,                   \* where the call is: "start", "loop", "invoke", "done"
  index_state,          \* the index path of lecture_id: "absent", "saved", "unloadable"
  num_questions,        \* argument
  difficulty,           \* argument
  arg_question_types,   \* argument: None or Some(list)
  question_types,       \* the list after defaulting
  generated_qas,        \* the accepted items, in order
  generated_questions,  \* the set of accepted dedup keys
  max_attempts,
  attempts,
  question_type,        \* the type of the attempt in flight
  elapsed,              \* time.time() - start_time, in seconds
  returned,             \* the list handed to the caller
  escaped,              \* an exception left generate_qa
  exit_path,            \* which return was taken
  model_calls,          \* model invocations started
  iterations,           \* loop iterations that passed the timeout check
  last_event,           \* what the last step of the loop did
  last_key              \* the dedup key the last parsed item had

genVars ==
  <<pc, index_state, num_questions, difficulty, arg_question_types,
    question_types, generated_qas, generated_questions, max_attempts,
    attempts, question_type, elapsed, returned, escaped, exit_path,
    model_calls, iterations, last_event, last_key>>

\* The state of the answer path: a stored QA row, what the practice page
\* shows for it and the StudentAnswer rows /answer has written.
VARIABLES
  raw_reply,        \* the model reply the row was parsed from
  parsed_qa,        \* None, or Some(the item the parser built from it)
  qa_row,           \* None, or Some(the QA row stored for the item)
  choice_options,   \* None, or Some(the options the practice page offers)
  student_answers   \* the StudentAnswer rows, oldest first

ansVars == <<raw_reply, parsed_qa, qa_row, choice_options, student_answers>>

\* A single call of one of the pure helpers, and what it returned.
VARIABLES
  unit_call,        \* the function called and its arguments
  unit_result       \* None, or Some(the value returned)

unitVars == <<unit_call, unit_result>>

\* The state of document processing: the LectureMaterial rows, the index
\* directories on disk, the background tasks not yet run and what the last
\* process_document call did.
VARIABLES
  lecture_materials,  \* lecture_id -> None, or Some(the LectureMaterial row)
  saved_index,        \* lecture_id -> None, or Some(the documents indexed)
  pending_tasks,      \* the background tasks FastAPI still has to run
  upload_status,      \* the HTTP status of the last /upload, 0 before it
  upload_response,    \* None, or Some(what the last /upload answered)
  last_process,       \* None, or Some(a record of the last process_document)
  process_calls       \* calls of process_document so far

docVars ==
  <<lecture_materials, saved_index, pending_tasks, upload_status,
    upload_response, last_process, process_calls>>

\* The state of one /generate_qa request and the QA table it writes to.
VARIABLES
  api_pc,           \* "idle", "generating" or "responded"
  request,          \* None, or Some(the QAGenerationRequest)
  api_response,     \* None, or Some(the HTTP response)
  qa_table,         \* the QA rows, oldest first
  generator_calls   \* calls of qa_generator.generate_qa by the endpoint

apiVars == <<api_pc, request, api_response, qa_table, generator_calls>>

\* The state of the service when requests and background tasks interleave:
\* the /upload requests in flight, the background tasks that have called
\* process_document, with or without their status update, and the last answer of
\* GET /lectures/{id}/status.
VARIABLES
  upload_requests,   \* request -> where the /upload request is, and its answer
  task_runs,         \* the runs of the background task, finished or not
  status_response    \* None, or Some(the last answer of the status endpoint)

svcVars == <<upload_requests, task_runs, status_response>>

\* The generate_qa calls running side by side on the module-level engine.
VARIABLES
  calls   \* call -> the local variables of that call of generate_qa

callVars == <<calls>>

vars == <<genVars, ansVars, unitVars, docVars, apiVars, svcVars, callVars>>

\* ---- the inputs of the generation runs

MaxQuestions == 6
MaxLatency   == 121

\* num_questions: a batch of one, one that the two keys of the replies fill,
\* and one large enough for the cap of ten attempts to bind.
NumQuestions == {1, 2, MaxQuestions}
Difficulties == {"medium"}
IndexStates  == {"absent", "saved", "unloadable"}

\* How long one blocking call (index load, model call) may take.
Latencies == {0, timeout_seconds, MaxLatency}

QuestionTypeArgs ==
  { None,
    Some(<<>>),
    Some(<<"multiple_choice">>),
    Some(<<"short_answer", "essay", "multiple_choice">>) }

\* Two questions that agree on their first 30 characters and differ after.
Prefix30  == <<"W","h","a","t",SP,"i","s",SP>> \o Rep("x", DedupKeyLen - 8)
LongQA    == Prefix30 \o <<"a","?">>
LongQB    == Prefix30 \o <<"b","?">>

ReplyMC ==
  <<"U8CEA","U554F",":",SP>> \o LongQA \o
  <<NL,"A",")",SP,"x",NL,"B",")",SP,"y",NL,"C",")",SP,"z",NL,"D",")",SP,"w",
    NL,"U6B63","U89E3",":",SP,"B",NL,"U89E3","U8AAC",":",SP,"e">>
ReplyLongB ==
  <<"U8CEA","U554F",":",SP>> \o LongQB \o <<NL,"U56DE","U7B54",":",SP,"y","e","s">>
\* "Q: Ab Cdef" and, without a question line, "AB　CDEF" (the fallback item):
\* one key, "abcdef", of length 6
ReplyCase1 == <<"Q",":",SP,"A","b",SP,"C","d","e","f",NL,"A",":",SP,"n","o">>
ReplyCase2 == <<"A","B",ISP,"C","D","E","F">>
\* "質問: a b c d e": the key "abcde" has length 5
ReplyShort ==
  <<"U8CEA","U554F",":",SP,"a",SP,"b",SP,"c",SP,"d",SP,"e",
    NL,"U56DE","U7B54",":",SP,"z">>
\* an empty reply: the fallback item has no question
ReplyEmpty == <<>>

ModelReplies ==
  { Str(ReplyMC), Str(ReplyLongB), Str(ReplyCase1), Str(ReplyCase2),
    Str(ReplyShort), Str(ReplyEmpty), NotStr }

QuestionTypes == {"multiple_choice", "short_answer", "essay"}

\* The question of the k-th reply of a model that never repeats itself: the
\* questions differ within their first 30 characters.
FreshQuestion(k) ==
  Rep("q", DedupMinLen + 1) \o
    [i \in 1..6 |-> IF (k \div (2 ^ (i - 1))) % 2 = 1 THEN "b" ELSE "a"]

FreshReply(k) ==
  Str(<<"U8CEA","U554F",":",SP>> \o FreshQuestion(k) \o
      <<NL,"U56DE","U7B54",":",SP,"a">>)

\* One fresh reply for every attempt the cap allows.
FreshReplies == { FreshReply(k) : k \in 1..MaxAttemptsCap }

\* _parse_qa_response on every reply the model may give, evaluated once.
ParsedReplies ==
  [reply \in ModelReplies \cup FreshReplies, d \in Difficulties,
   qt \in QuestionTypes |->
     ParseQAResponse(reply, d, qt)]

\* ---- the steps of generate_qa

\* A rotation that follows the attempt counter instead of the accepted count.
RotatedTypeByAttempt(types, current_index) == types[(attempts % Len(types)) + 1]

\* question_types[current_index % len(question_types)]
RotatedType(types, current_index) == types[(current_index % Len(types)) + 1]


\* "return generated_qas" / "return []"
Return(list, path) ==
  /\ pc' = "done"
  /\ returned' = list
  /\ exit_path' = path
  /\ escaped' = FALSE

\* A defaulting that also replaces an empty list ("if not question_types").
DefaultedWhenEmpty(arg) ==
  IF arg = None \/ arg[1] = <<>> THEN DefaultQuestionTypes ELSE arg[1]

\* question_types is None -> the default list
Defaulted(arg) == IF arg = None THEN DefaultQuestionTypes ELSE arg[1]

\* A missing index that is reported by an exception instead of [].
IndexNotFoundRaises ==
  /\ pc = "start"
  /\ index_state = "absent"
  /\ question_types' = Defaulted(arg_question_types)
  /\ pc' = "done"
  /\ escaped' = TRUE
  /\ exit_path' = "no_index"
  /\ UNCHANGED <<index_state, num_questions, difficulty, arg_question_types,
                 generated_qas, generated_questions, max_attempts, attempts,
                 question_type, elapsed, returned, model_calls, iterations,
                 last_event, last_key>>
  /\ UNCHANGED <<ansVars, unitVars, docVars, apiVars, svcVars, callVars>>

\* os.path.exists(index_path) is false
IndexNotFound ==
  /\ pc = "start"
  /\ index_state = "absent"
  /\ question_types' = Defaulted(arg_question_types)
  /\ Return(<<>>, "no_index")
  /\ UNCHANGED <<index_state, num_questions, difficulty, arg_question_types,
                 generated_qas, generated_questions, max_attempts, attempts,
                 question_type, elapsed, model_calls, iterations, last_event,
                 last_key>>
  /\ UNCHANGED <<ansVars, unitVars, docVars, apiVars, svcVars, callVars>>

\* FAISS.load_local raises: the outer handler returns []
LoadRaises(lat) ==
  /\ pc = "start"
  /\ index_state = "unloadable"
  /\ question_types' = Defaulted(arg_question_types)
  /\ elapsed' = elapsed + lat
  /\ Return(<<>>, "load_error")
  /\ UNCHANGED <<index_state, num_questions, difficulty, arg_question_types,
                 generated_qas, generated_questions, max_attempts, attempts,
                 question_type, model_calls, iterations, last_event, last_key>>
  /\ UNCHANGED <<ansVars, unitVars, docVars, apiVars, svcVars, callVars>>

\* FAISS.load_local returns; the loop's counters are set up
LoadIndex(lat) ==
  /\ pc = "start"
  /\ index_state = "saved"
  /\ question_types' = Defaulted(arg_question_types)
  /\ elapsed' = elapsed + lat
  /\ generated_qas' = <<>>
  /\ generated_questions' = {}
  /\ max_attempts' = MaxAttempts(num_questions)
  /\ attempts' = 0
  /\ pc' = "loop"
  /\ UNCHANGED <<index_state, num_questions, difficulty, arg_question_types,
                 question_type, returned, escaped, exit_path, model_calls,
                 iterations, last_event, last_key>>
  /\ UNCHANGED <<ansVars, unitVars, docVars, apiVars, svcVars, callVars>>

\* The while condition is false: fall out of the loop and return.
LoopExit ==
  /\ pc = "loop"
  /\ ~LoopCondition(generated_qas, num_questions, attempts, max_attempts)
  /\ Return(generated_qas, "loop_end")
  /\ UNCHANGED <<index_state, num_questions, difficulty, arg_question_types,
                 question_types, generated_qas, generated_questions,
                 max_attempts, attempts, question_type, elapsed, model_calls,
                 iterations, last_event, last_key>>
  /\ UNCHANGED <<ansVars, unitVars, docVars, apiVars, svcVars, callVars>>

\* The timeout check at the top of the body: break, then return.
Timeout ==
  /\ pc = "loop"
  /\ LoopCondition(generated_qas, num_questions, attempts, max_attempts)
  /\ TimedOut(elapsed)
  /\ Return(generated_qas, "timeout")
  /\ UNCHANGED <<index_state, num_questions, difficulty, arg_question_types,
                 question_types, generated_qas, generated_questions,
                 max_attempts, attempts, question_type, elapsed, model_calls,
                 iterations, last_event, last_key>>
  /\ UNCHANGED <<ansVars, unitVars, docVars, apiVars, svcVars, callVars>>

\* The head of the try block: count the attempt and pick its type.  With an
\* empty list the index expression raises ZeroDivisionError, which the
\* attempt's handler swallows.
IterStart ==
  /\ pc = "loop"
  /\ LoopCondition(generated_qas, num_questions, attempts, max_attempts)
  /\ ~TimedOut(elapsed)
  /\ attempts' = attempts + 1
  /\ iterations' = iterations + 1
  /\ last_key' = <<>>
  /\ IF question_types = <<>>
     THEN /\ pc' = "loop"
          /\ last_event' = "raised"
          /\ UNCHANGED <<question_type, model_calls>>
     ELSE /\ pc' = "invoke"
          /\ question_type' = RotatedType(question_types, Len(generated_qas))
          /\ model_calls' = model_calls + 1
          /\ last_event' = "started"
  /\ UNCHANGED <<index_state, num_questions, difficulty, arg_question_types,
                 question_types, generated_qas, generated_questions,
                 max_attempts, elapsed, returned, escaped, exit_path>>
  /\ UNCHANGED <<ansVars, unitVars, docVars, apiVars, svcVars, callVars>>

\* An attempt whose exception is not caught inside the loop: the outer
\* handler ends the call with [].
AttemptRaisesAborts(lat) ==
  /\ pc = "invoke"
  /\ elapsed' = elapsed + lat
  /\ last_event' = "raised"
  /\ Return(<<>>, "attempt_error")
  /\ UNCHANGED <<index_state, num_questions, difficulty, arg_question_types,
                 question_types, generated_qas, generated_questions,
                 max_attempts, attempts, question_type, model_calls,
                 iterations, last_key>>
  /\ UNCHANGED <<ansVars, unitVars, docVars, apiVars, svcVars, callVars>>

\* The chain or the model raises: "except Exception ... continue".
AttemptRaises(lat) ==
  /\ pc = "invoke"
  /\ elapsed' = elapsed + lat
  /\ pc' = "loop"
  /\ last_event' = "raised"
  /\ UNCHANGED <<index_state, num_questions, difficulty, arg_question_types,
                 question_types, generated_qas, generated_questions,
                 max_attempts, attempts, question_type, returned, escaped,
                 exit_path, model_calls, iterations, last_key>>
  /\ UNCHANGED <<ansVars, unitVars, docVars, apiVars, svcVars, callVars>>

\* The model replies: parse, then the duplicate check.
AttemptReplies(reply, lat) ==
  LET parsed == ParsedReplies[reply, difficulty, question_type]
  IN  /\ pc = "invoke"
      /\ elapsed' = elapsed + lat
      /\ pc' = "loop"
      /\ IF parsed # None /\ parsed[1].question # <<>>
         THEN LET qa_pair      == parsed[1]
                  question_key == QuestionKey(qa_pair.question)
              IN  /\ last_key' = question_key
                  /\ IF Accepts(question_key, generated_questions)
                     THEN /\ generated_qas' =
                               Append(generated_qas,
                                      [qa_pair EXCEPT !.question_type = question_type])
                          /\ generated_questions' =
                               generated_questions \cup {question_key}
                          /\ last_event' = "accepted"
                     ELSE /\ last_event' = "rejected"
                          /\ UNCHANGED <<generated_qas, generated_questions>>
         ELSE /\ last_event' = "discarded"
              /\ UNCHANGED <<generated_qas, generated_questions, last_key>>
      /\ UNCHANGED <<index_state, num_questions, difficulty, arg_question_types,
                     question_types, max_attempts, attempts, question_type,
                     returned, escaped, exit_path, model_calls, iterations>>
      /\ UNCHANGED <<ansVars, unitVars, docVars, apiVars, svcVars, callVars>>

GenInit ==
  /\ pc = "start"
  /\ index_state \in IndexStates
  /\ num_questions \in NumQuestions
  /\ difficulty \in Difficulties
  /\ arg_question_types \in QuestionTypeArgs
  /\ question_types = <<>>
  /\ generated_qas = <<>>
  /\ generated_questions = {}
  /\ max_attempts = 0
  /\ attempts = 0
  /\ question_type = ""
  /\ elapsed = 0
  /\ returned = <<>>
  /\ escaped = FALSE
  /\ exit_path = "none"
  /\ model_calls = 0
  /\ iterations = 0
  /\ last_event = "none"
  /\ last_key = <<>>

AnsIdle ==
  /\ raw_reply = NotStr
  /\ parsed_qa = None
  /\ qa_row = None
  /\ choice_options = None
  /\ student_answers = <<>>

\* No helper has been called.
UnitIdle ==
  /\ unit_call = [fn |-> "none"]
  /\ unit_result = None

LectureIds == {1, 2}

\* No lecture has been uploaded and no index written.
DocIdle ==
  /\ lecture_materials = [id \in LectureIds |-> None]
  /\ saved_index = [id \in LectureIds |-> None]
  /\ pending_tasks = {}
  /\ upload_status = 0
  /\ upload_response = None
  /\ last_process = None
  /\ process_calls = 0

\* No request has reached /generate_qa and the QA table is empty.
ApiIdle ==
  /\ api_pc = "idle"
  /\ request = None
  /\ api_response = None
  /\ qa_table = <<>>
  /\ generator_calls = 0

\* The /upload requests the interleavings are made of.
UploadRequests == {1, 2}

\* No /upload request has arrived, no task is running and the status
\* endpoint has not been asked.
SvcIdle ==
  /\ upload_requests = [r \in UploadRequests |-> [pc |-> "idle"]]
  /\ task_runs = {}
  /\ status_response = None

\* The generate_qa calls that run side by side.
CallIds == {1, 2}

\* The local variables of a call that has not started.
IdleCall ==
  [pc                  |-> "idle",
   num_questions       |-> 0,
   generated_qas       |-> <<>>,
   generated_questions |-> {},
   max_attempts        |-> 0,
   attempts            |-> 0,
   question_type       |-> "",
   elapsed             |-> 0,
   events              |-> <<>>,
   returned            |-> <<>>]

\* No concurrent call has started.
CallsIdle == calls = [c \in CallIds |-> IdleCall]

Init ==
  GenInit /\ AnsIdle /\ UnitIdle /\ DocIdle /\ ApiIdle /\ SvcIdle /\ CallsIdle

Next ==
  \/ IndexNotFound
  \/ \E lat \in Latencies : LoadRaises(lat)
  \/ \E lat \in Latencies : LoadIndex(lat)
  \/ LoopExit
  \/ Timeout
  \/ IterStart
  \/ \E lat \in Latencies : AttemptRaises(lat)
  \/ \E reply \in ModelReplies, lat \in Latencies : AttemptReplies(reply, lat)

Spec == Init /\ [][Next]_vars

\* ------------------------------------------------ claims on generate_qa

\* The batch the caller sees once the call is over, the accepted list before.
Batch == IF pc = "done" THEN returned ELSE generated_qas

KeyOf(item) == QuestionKey(item.question)

IsPrefix(s, t) == Len(s) <= Len(t) /\ SubSeq(t, 1, Len(s)) = s

\* A step that ends one attempt by an exception: in the model call, or
\* already in the selection of the question type.
AttemptFails ==
  /\ last_event' = "raised"
  /\ \/ pc = "invoke"
     \/ pc = "loop" /\ attempts' # attempts

\* C1: in every batch, two accepted items share a dedup key only if that key
\* has length <= 5.
C1_NoSharedDedupKey ==
  \A i, j \in 1..Len(Batch) :
    (i < j /\ KeyOf(Batch[i]) = KeyOf(Batch[j]))
      => Len(KeyOf(Batch[i])) <= DedupMinLen

\* C1 witness: a returned batch of two or more items whose last attempt was
\* rejected as a repeat of an accepted key.
C1_Witness ==
  /\ pc = "done"
  /\ Len(returned) >= 2
  /\ last_event = "rejected"
  /\ last_key \in generated_questions

\* C2 as stated: an item is rejected only if its key was already accepted and
\* is longer than 5; an item with a key of length <= 5 is accepted.
C2_Original_ShortKeysAccepted ==
  /\ last_event = "rejected"
       => (last_key \in generated_questions /\ Len(last_key) > DedupMinLen)
  /\ (last_event \in {"accepted", "rejected"} /\ Len(last_key) <= DedupMinLen)
       => last_event = "accepted"

\* What C2 (amended) asks of a step that parsed an item with a question.
DedupStepOk ==
  (pc = "invoke" /\ last_event' \in {"accepted", "rejected"}) =>
     /\ (last_event' = "rejected")
          <=> (last_key' \in generated_questions \/ Len(last_key') <= DedupMinLen)
     /\ (last_event' = "rejected")
          => (generated_qas' = generated_qas
              /\ generated_questions' = generated_questions)
     /\ (last_event' = "accepted")
          => (/\ Len(generated_qas') = Len(generated_qas) + 1
              /\ IsPrefix(generated_qas, generated_qas')
              /\ KeyOf(generated_qas'[Len(generated_qas')]) = last_key'
              /\ generated_questions' = generated_questions \cup {last_key'})

\* C2 amended: a parsed item with a question is rejected exactly when its key
\* was already accepted or has length <= 5, and accepted (appended, its key
\* recorded) otherwise; no accepted key has length <= 5.
C2_RejectedIffSeenOrShort ==
  /\ [][DedupStepOk]_vars
  /\ [](\A k \in generated_questions : Len(k) > DedupMinLen)

\* C2 witness: an item whose key is new but of length <= 5 has been rejected.
C2_Witness ==
  /\ last_event = "rejected"
  /\ last_key \notin generated_questions
  /\ Len(last_key) <= DedupMinLen

\* What C3 asks of a step that ends an attempt by an exception.
FailedAttemptOk ==
  AttemptFails =>
     /\ generated_qas' = generated_qas
     /\ generated_questions' = generated_questions
     /\ pc' = "loop"
     /\ escaped' = FALSE
     /\ attempts' = iterations'

\* The accepted list only grows, and the batch returned extends it.
AcceptedKept == (pc \in {"loop", "invoke"}) => IsPrefix(generated_qas, Batch')

\* C3: an attempt that raises leaves the accepted list and the key set as
\* they were, is counted, hands control back to the loop and lets nothing
\* escape; every item accepted so far stays in the list that is returned.
C3_FailedAttemptIsolated ==
  /\ [][FailedAttemptOk]_vars
  /\ [][AcceptedKept]_vars
  /\ [](attempts = iterations /\ ~escaped)

\* C3 witness: a call that accepted an item, then ended on failing attempts,
\* and returned.
C3_Witness ==
  /\ pc = "done"
  /\ exit_path = "loop_end"
  /\ last_event = "raised"
  /\ Len(returned) >= 1
  /\ attempts > Len(returned)

\* C4: a call starts at most min(2 * num_questions, 10) attempts and model
\* invocations, and returns at most num_questions items.
C4_AttemptsAndItemsBounded ==
  /\ attempts <= Min(2 * num_questions, MaxAttemptsCap)
  /\ iterations <= Min(2 * num_questions, MaxAttemptsCap)
  /\ model_calls <= Min(2 * num_questions, MaxAttemptsCap)
  /\ Len(Batch) <= num_questions

\* C4 witness: a call that asked for more than five items and used all ten
\* attempts.
C4_Witness ==
  /\ pc = "done"
  /\ 2 * num_questions > MaxAttemptsCap
  /\ model_calls = MaxAttemptsCap

\* The three ways a call that loaded its index ends.
Complete         == Len(returned) = num_questions
PartialTimeout   == exit_path = "timeout" /\ TimedOut(elapsed)
PartialExhausted ==
  /\ exit_path = "loop_end"
  /\ attempts >= Min(2 * num_questions, MaxAttemptsCap)
  /\ Len(returned) < num_questions

ExactlyOneOf(a, b, c) ==
  \/ a /\ ~b /\ ~c
  \/ ~a /\ b /\ ~c
  \/ ~a /\ ~b /\ c

\* The call went past the load of its index.
IndexLoaded == pc \in {"loop", "invoke"} \/ exit_path \in {"loop_end", "timeout"}

\* A measure every step of a call increases; it is at most Rank of "done".
Rank ==
  CASE pc = "start"  -> 0
    [] pc = "loop"   -> 2 * attempts + 1
    [] pc = "invoke" -> 2 * attempts
    [] pc = "done"   -> 2 * MaxAttemptsCap + 2

Progresses == Rank' > Rank

\* C5: a call on an existing index terminates (every step increases a bounded
\* measure, and a call that is not over can take a step), in exactly one of
\* Complete, PartialTimeout and PartialExhausted, and returns exactly the
\* items accepted so far, in acceptance order.
C5_ThreeTerminationStates ==
  /\ [][Progresses]_vars
  /\ [](pc # "done" => ENABLED Next)
  /\ []((pc = "done" /\ IndexLoaded) =>
          /\ ExactlyOneOf(Complete, PartialTimeout, PartialExhausted)
          /\ returned = generated_qas)

\* C5 witness: a call that ended on the timeout with an item accepted.
C5_Witness ==
  /\ pc = "done"
  /\ IndexLoaded
  /\ PartialTimeout
  /\ Len(returned) >= 1
  /\ Len(returned) < num_questions

\* What C6 asks of a step taken at an iteration start after the budget.
TimeoutStepOk ==
  (/\ pc = "loop"
   /\ Len(generated_qas) < num_questions
   /\ attempts < max_attempts
   /\ elapsed > timeout_seconds) =>
     /\ pc' = "done"
     /\ returned' = generated_qas
     /\ model_calls' = model_calls
     /\ attempts' = attempts

\* C6: the elapsed time is checked at the top of every iteration: past 120
\* seconds no model call is started and the accepted items are returned, so a
\* model call is only ever started within the budget and the call lasts at
\* most the budget plus one blocking call.
C6_TimeoutCheckedAtIterationStart ==
  /\ [][TimeoutStepOk]_vars
  /\ [](pc = "invoke" => elapsed <= timeout_seconds)
  /\ [](elapsed <= timeout_seconds + MaxLatency)

\* C6 witness: a model call started exactly at the budget and took the longest
\* latency; the next iteration start timed out.
C6_Witness ==
  /\ pc = "done"
  /\ exit_path = "timeout"
  /\ model_calls >= 1
  /\ elapsed = timeout_seconds + MaxLatency

\* C7: the attempt in flight has the type question_types[a mod len], a the
\* number of items accepted so far, and the i-th item of every batch (0-based)
\* has the type question_types[i mod len].
C7_TypeRotatesWithAccepted ==
  /\ pc = "invoke" =>
       question_type =
         question_types[(Len(generated_qas) % Len(question_types)) + 1]
  /\ \A i \in 1..Len(Batch) :
       Batch[i].question_type =
         question_types[((i - 1) % Len(question_types)) + 1]

\* C7 witness: a returned batch of two items of different types, after more
\* attempts than items.
C7_Witness ==
  /\ pc = "done"
  /\ Len(returned) >= 2
  /\ returned[1].question_type # returned[2].question_type
  /\ attempts > Len(returned)

\* C8: without a saved index the call returns [] and invokes no model; no
\* exception of an attempt or of the index load leaves generate_qa.
C8_NoIndexReturnsEmpty ==
  /\ ~escaped
  /\ (pc = "done" /\ index_state = "absent") =>
       (returned = <<>> /\ model_calls = 0 /\ attempts = 0)
  /\ (pc = "done" /\ index_state = "unloadable") =>
       (returned = <<>> /\ model_calls = 0)

\* C8 witness: a call for a lecture without index has returned.
C8_Witness ==
  /\ pc = "done"
  /\ index_state = "absent"
  /\ exit_path = "no_index"
  /\ returned = <<>>

\* ------------------------------------------- the answer path: patterns

ChoiceLetterSet == {ChoiceLetters[i] : i \in 1..Len(ChoiceLetters)}

\* The number of whitespace characters of s from position q on (the most \s*
\* can take there).
RECURSIVE WsRun(_, _)
WsRun(s, q) ==
  IF q <= Len(s) /\ s[q] \in Whitespace THEN 1 + WsRun(s, q + 1) ELSE 0

\* The last position of the line that holds position q.
LineEnd(s, q) ==
  LET nls == {j \in q..Len(s) : s[j] = NL}
  IN  IF nls = {} THEN Len(s)
      ELSE (CHOOSE j \in nls : \A k \in nls : j <= k) - 1

\* ([A-D])\)\s*([^\n]+) tried at position p: where the text group starts, or
\* 0 when the pattern does not match there.  \s* is greedy and gives
\* whitespace back until a character other than a newline follows.
ChoiceTextStart(s, p) ==
  IF ~(p + 1 <= Len(s) /\ s[p] \in ChoiceLetterSet /\ s[p + 1] = ")") THEN 0
  ELSE LET w  == WsRun(s, p + 2)
           ks == {k \in 0..w : p + 2 + k <= Len(s) /\ s[p + 2 + k] # NL}
       IN  IF ks = {} THEN 0
           ELSE p + 2 + (CHOOSE k \in ks : \A m \in ks : m <= k)

\* re.findall(r'([A-D])\)\s*([^\n]+)', s): the (letter, text) pairs of the
\* matches, leftmost first, each search resuming after the previous match.
RECURSIVE FindAllChoicesFrom(_, _)
FindAllChoicesFrom(s, i) ==
  LET hits == {p \in i..Len(s) : ChoiceTextStart(s, p) # 0}
  IN  IF hits = {} THEN <<>>
      ELSE LET p == CHOOSE h \in hits : \A m \in hits : h <= m
               q == ChoiceTextStart(s, p)
               e == LineEnd(s, q)
           IN  << <<s[p], SubSeq(s, q, e)>> >> \o FindAllChoicesFrom(s, e + 1)

FindAllChoices(s) == FindAllChoicesFrom(s, 1)

\* f"{letter}) {choice_text.strip()}"
ChoiceOption(match) == <<match[1], ")", SP>> \o Strip(match[2])

\* The options of the radio button of a multiple_choice row.
ChoiceOptionsOf(answer_text) ==
  LET matches == FindAllChoices(answer_text)
  IN  [i \in 1..Len(matches) |-> ChoiceOption(matches[i])]

\* A correct-letter search that looks for the first choice letter of the
\* blob instead of the marker.
SearchFirstChoiceLetter(s) ==
  LET hits == {p \in 1..Len(s) : s[p] \in ChoiceLetterSet}
  IN  IF hits = {} THEN None
      ELSE Some(s[CHOOSE h \in hits : \A m \in hits : h <= m])

\* re.search(r'正解:\s*([A-D])', s): None, or Some(the letter of the leftmost
\* match).
SearchCorrect(s) ==
  LET n    == Len(CorrectMarker)
      at(p) == p + n + WsRun(s, p + n)
      hits == {p \in 1..Len(s) :
                 /\ p + n - 1 <= Len(s)
                 /\ SubSeq(s, p, p + n - 1) = CorrectMarker
                 /\ at(p) <= Len(s)
                 /\ s[at(p)] \in ChoiceLetterSet}
  IN  IF hits = {} THEN None
      ELSE Some(s[at(CHOOSE h \in hits : \A m \in hits : h <= m)])

\* ------------------------------------------- the answer path: grading

\* set(s.split()): the maximal runs of characters that are not whitespace
Keywords(s) ==
  LET starts == {i \in 1..Len(s) :
                   s[i] \notin Whitespace /\ (i = 1 \/ s[i - 1] \in Whitespace)}
      stop(i) == CHOOSE j \in i..Len(s) :
                   /\ \A k \in i..j : s[k] \notin Whitespace
                   /\ (j = Len(s) \/ s[j + 1] \in Whitespace)
  IN  {SubSeq(s, i, stop(i)) : i \in starts}

\* A check that asks for more than half of the stored keywords.
SimpleAnswerCheckStrict(correct_answer, student_answer) ==
  LET correct_keywords == Keywords(correct_answer)
      student_keywords == Keywords(student_answer)
      common_keywords  == correct_keywords \cap student_keywords
  IN  IF Cardinality(correct_keywords) = 0
      THEN Cardinality(student_keywords) = 0
      ELSE 2 * Cardinality(common_keywords) > Cardinality(correct_keywords)

\* _simple_answer_check: half of the stored keywords, or both sets empty
SimpleAnswerCheck(correct_answer, student_answer) ==
  LET correct_keywords == Keywords(correct_answer)
      student_keywords == Keywords(student_answer)
      common_keywords  == correct_keywords \cap student_keywords
  IN  IF Cardinality(correct_keywords) = 0
      THEN Cardinality(student_keywords) = 0
      ELSE 2 * Cardinality(common_keywords) >= Cardinality(correct_keywords)

\* correct_choice == student_choice, both upper-cased, the submission stripped
ChoiceMatches(correct_letter, answer) ==
  Upper(<<correct_letter>>) = Strip(Upper(answer))

\* A grader that marks a multiple_choice row without a correct marker wrong.
IsCorrectNoFallback(row, answer) ==
  IF row.question_type = "multiple_choice"
  THEN LET correct_match == SearchCorrect(row.answer)
       IN  IF correct_match # None
           THEN ChoiceMatches(correct_match[1], answer)
           ELSE FALSE
  ELSE SimpleAnswerCheck(Strip(Lower(row.answer)), Strip(Lower(answer)))

\* The verdict of submit_answer on a stored row.
IsCorrect(row, answer) ==
  IF row.question_type = "multiple_choice"
  THEN LET correct_match == SearchCorrect(row.answer)
       IN  IF correct_match # None
           THEN ChoiceMatches(correct_match[1], answer)
           ELSE SimpleAnswerCheck(Strip(Lower(row.answer)), Strip(Lower(answer)))
  ELSE SimpleAnswerCheck(Strip(Lower(row.answer)), Strip(Lower(answer)))

\* ------------------------------------------- the answer path: the steps

MaxAnswers == 1

\* The displayed options a student picks from.
MaxOptions == 6

\* The replies a QA row is generated from: a question line, then a block of
\* choice lines, a correct-choice line and an explanation line, each in a few
\* of the shapes a model gives them.
ReplyQuestionLine ==
  <<"U8CEA","U554F",":",SP,"W","h","a","t",SP,"i","s",SP,"X",SP,
    "r","e","a","l","l","y","?">>

ReplyChoiceBlocks ==
  { \* "A) x", "B) y", "C) z", "D) w"
    <<NL,"A",")",SP,"x",NL,"B",")",SP,"y",NL,"C",")",SP,"z",NL,"D",")",SP,"w">>,
    \* the same without the space after the parenthesis
    <<NL,"A",")","x",NL,"B",")","y",NL,"C",")","z",NL,"D",")","w">>,
    \* a first choice without text
    <<NL,"A",")",NL,"B",")",SP,"y",NL,"C",")",SP,"z",NL,"D",")",SP,"w">>,
    \* three choices only
    <<NL,"A",")",SP,"x",NL,"B",")",SP,"y",NL,"C",")",SP,"z">>,
    \* no choice line, an answer line instead: "回答: B"
    <<NL,"U56DE","U7B54",":",SP,"B">> }

ReplyCorrectLines ==
  { <<>>,
    \* "正解: B", "正解:D"
    <<NL,"U6B63","U89E3",":",SP,"B">>,
    <<NL,"U6B63","U89E3",":","D">>,
    \* the letter with its choice text: "正解: B) y"
    <<NL,"U6B63","U89E3",":",SP,"B",")",SP,"y">>,
    \* a lower-case letter, and a letter that does not come first
    <<NL,"U6B63","U89E3",":",SP,"b">>,
    <<NL,"U6B63","U89E3",":",SP,"*","B">> }

ReplyExplanationLines ==
  { <<>>,
    \* "解説: e"
    <<NL,"U89E3","U8AAC",":",SP,"e">>,
    \* an explanation that names a choice: "解説: not A) but B"
    <<NL,"U89E3","U8AAC",":",SP,"n","o","t",SP,"A",")",SP,"b","u","t",SP,"B">> }

AnswerReplies ==
  { Str(ReplyQuestionLine \o c \o k \o e) :
      c \in ReplyChoiceBlocks, k \in ReplyCorrectLines, e \in ReplyExplanationLines }

\* What a student submits.
Submissions ==
  { <<"A">>, <<"B">>, <<"C">>, <<"D">>, <<"b">>, <<SP,"d",SP>>,
    <<"B",")",SP,"y">>, <<"x">> }

\* The QA row /generate_qa writes for an item.
QARow(item) ==
  [question      |-> item.question,
   answer        |-> item.answer,
   difficulty    |-> item.difficulty,
   question_type |-> item.question_type]

\* A generation of one question whose reply is raw_reply: the item is parsed,
\* passes the duplicate check of an empty key set and is stored as a row.
StoreQA(d, qt) ==
  LET parsed == ParseQAResponse(raw_reply, d, qt)
  IN  /\ qa_row = None
      /\ parsed # None
      /\ parsed[1].question # <<>>
      /\ Accepts(QuestionKey(parsed[1].question), {})
      /\ parsed_qa' = Some([parsed[1] EXCEPT !.question_type = qt])
      /\ qa_row' = Some(QARow([parsed[1] EXCEPT !.question_type = qt]))
      /\ UNCHANGED <<raw_reply, choice_options, student_answers>>
      /\ UNCHANGED <<genVars, unitVars, docVars, apiVars, svcVars, callVars>>

\* The practice page builds the radio options of a multiple_choice row.
DisplayChoices ==
  /\ qa_row # None
  /\ qa_row[1].question_type = "multiple_choice"
  /\ choice_options = None
  /\ choice_options' = Some(ChoiceOptionsOf(qa_row[1].answer))
  /\ UNCHANGED <<raw_reply, parsed_qa, qa_row, student_answers>>
  /\ UNCHANGED <<genVars, unitVars, docVars, apiVars, svcVars, callVars>>

\* POST /answer for the row: the verdict is computed and a StudentAnswer row
\* is written.
SubmitAnswer(answer) ==
  /\ qa_row # None
  /\ Len(student_answers) < MaxAnswers
  /\ student_answers' =
       Append(student_answers,
              [answer |-> answer, is_correct |-> IsCorrect(qa_row[1], answer)])
  /\ UNCHANGED <<raw_reply, parsed_qa, qa_row, choice_options>>
  /\ UNCHANGED <<genVars, unitVars, docVars, apiVars, svcVars, callVars>>

\* re.match(r'([A-D])', s)
MatchLeadingLetter(s) ==
  IF s # <<>> /\ s[1] \in ChoiceLetterSet THEN Some(s[1]) ELSE None

\* The practice page sends only the leading letter of a multiple_choice
\* answer, when there is one.
AnswerPayload(qt, student_answer) ==
  IF qt = "multiple_choice"
       /\ MatchLeadingLetter(Upper(Strip(student_answer))) # None
  THEN <<MatchLeadingLetter(Upper(Strip(student_answer)))[1]>>
  ELSE student_answer

\* The practice page: the student picks one of the displayed options and the
\* page posts its payload to /answer.
PracticePageSubmit(i) ==
  /\ qa_row # None
  /\ choice_options # None
  /\ i \in 1..Len(choice_options[1])
  /\ SubmitAnswer(AnswerPayload(qa_row[1].question_type, choice_options[1][i]))

\* No generation run is in progress.
GenIdle ==
  /\ pc = "idle"
  /\ index_state = "saved"
  /\ num_questions = 1
  /\ difficulty = "medium"
  /\ arg_question_types = None
  /\ question_types = <<>>
  /\ generated_qas = <<>>
  /\ generated_questions = {}
  /\ max_attempts = 0
  /\ attempts = 0
  /\ question_type = ""
  /\ elapsed = 0
  /\ returned = <<>>
  /\ escaped = FALSE
  /\ exit_path = "none"
  /\ model_calls = 0
  /\ iterations = 0
  /\ last_event = "none"
  /\ last_key = <<>>

AnswerInit ==
  /\ GenIdle
  /\ UnitIdle
  /\ DocIdle
  /\ ApiIdle
  /\ SvcIdle
  /\ CallsIdle
  /\ raw_reply \in AnswerReplies
  /\ parsed_qa = None
  /\ qa_row = None
  /\ choice_options = None
  /\ student_answers = <<>>

AnswerNext ==
  \/ \E d \in Difficulties, qt \in QuestionTypes : StoreQA(d, qt)
  \/ DisplayChoices
  \/ \E answer \in Submissions : SubmitAnswer(answer)
  \/ \E i \in 1..MaxOptions : PracticePageSubmit(i)

AnswerSpec == AnswerInit /\ [][AnswerNext]_vars

\* ------------------------------------------- claims on the answer path

\* A choice line as a (letter, text) option: "A)x" and "A) x" are one choice.
EmbeddedOption(line) == <<line[1], ")", SP>> \o Strip(From(line, 3))

\* The letter the correct-choice line of a reply embeds, if it is one of A-D.
EmbeddedLetter(item) ==
  IF item.correct_answer # <<>> /\ item.correct_answer[1] \in ChoiceLetterSet
  THEN Some(item.correct_answer[1])
  ELSE None

\* A multiple_choice item with a composite answer that embeds four choices,
\* each with a text, and a correct letter, displayed.
RoundTripCase ==
  /\ parsed_qa # None
  /\ parsed_qa[1].question_type = "multiple_choice"
  /\ Len(parsed_qa[1].choices) = Len(ChoiceLetters)
  /\ \A i \in 1..Len(parsed_qa[1].choices) :
       Strip(From(parsed_qa[1].choices[i], 3)) # <<>>
  /\ EmbeddedLetter(parsed_qa[1]) # None
  /\ choice_options # None

\* C9: for every multiple_choice reply from which the parser builds a
\* composite answer, re-parsing the answer with the display's choice pattern
\* and the grader's correct-choice pattern recovers exactly the four embedded
\* choices and the embedded correct letter.
C9_CompositeRoundTrip ==
  RoundTripCase =>
    /\ choice_options[1] =
         [i \in 1..Len(parsed_qa[1].choices) |-> EmbeddedOption(parsed_qa[1].choices[i])]
    /\ SearchCorrect(qa_row[1].answer) = EmbeddedLetter(parsed_qa[1])

\* The letter of the line of the stored answer that starts with the correct
\* marker, if that line goes on with a letter of A-D.
MarkerLineLetter(blob) ==
  LET lines == Split(blob, NL)
      idx   == {i \in 1..Len(lines) : StartsWith(lines[i], CorrectMarker)}
  IN  IF idx = {} THEN None
      ELSE LET line == lines[CHOOSE i \in idx : \A j \in idx : i <= j]
               rest == Strip(From(line, Len(CorrectMarker) + 1))
           IN  IF rest # <<>> /\ rest[1] \in ChoiceLetterSet
               THEN Some(rest[1]) ELSE None

\* C10: for a multiple_choice row whose stored answer holds the correct marker
\* with a letter X of A-D, the submission X is graded correct and every other
\* letter of A-D incorrect.
C10_LetterGrading ==
  (qa_row # None /\ qa_row[1].question_type = "multiple_choice"
     /\ MarkerLineLetter(qa_row[1].answer) # None) =>
    \A i \in 1..Len(student_answers) :
      \A letter \in ChoiceLetterSet :
        student_answers[i].answer = <<letter>> =>
          (student_answers[i].is_correct
             <=> letter = MarkerLineLetter(qa_row[1].answer)[1])

\* C10 witness: the correct letter D was submitted for a row whose marker
\* line reads D, and was graded correct.
C10_Witness ==
  /\ qa_row # None
  /\ qa_row[1].question_type = "multiple_choice"
  /\ MarkerLineLetter(qa_row[1].answer) = Some("D")
  /\ Len(student_answers) = 1
  /\ student_answers[1].answer = <<"D">>
  /\ student_answers[1].is_correct

\* A submission in the "letter) text" form with the letter given.
IsChoiceLineOf(letter, answer) ==
  /\ Len(Strip(answer)) > 2
  /\ Upper(Strip(answer))[1] = letter
  /\ Strip(answer)[2] = ")"

\* C11: for a multiple_choice row whose stored answer holds the correct marker
\* with a letter X of A-D, a submission of the correct choice as its full
\* choice line, "X) text", is graded correct.
C11_FullChoiceLineCorrect ==
  (qa_row # None /\ qa_row[1].question_type = "multiple_choice"
     /\ MarkerLineLetter(qa_row[1].answer) # None) =>
    \A i \in 1..Len(student_answers) :
      IsChoiceLineOf(MarkerLineLetter(qa_row[1].answer)[1],
                     student_answers[i].answer)
        => student_answers[i].is_correct

\* ------------------------------------------- single calls of the helpers

\* Stored answers: "P q r s t", "p q", "x", an empty one and a blank one.
UnitStoredAnswers ==
  { <<"P",SP,"q",SP,"r",SP,"s",SP,"t">>, <<"p",SP,"q">>, <<"x">>, <<>>,
    <<SP,NL>> }

\* Submissions: "p Q r" (3 of 5), "p q" (2 of 5, 2 of 2), "p" (1 of 2),
\* "u v", "t s r q p z", an empty one and a blank one.
UnitSubmissions ==
  { <<"p",SP,"Q",SP,"r">>, <<"p",SP,"q">>, <<"p">>, <<"u",SP,"v">>,
    <<"t",SP,"s",TAB,"r",SP,"q",SP,SP,"p",SP,"z">>, <<>>, <<ISP,SP>> }

UnitRow(answer, qt) ==
  [question      |-> <<"W","h","y","?">>,
   answer        |-> answer,
   difficulty    |-> "medium",
   question_type |-> qt]

\* Replies without a question line: "hi", " hi" with a newline after it, the
\* answer line "回答: z", a question line without text "質問:", and replies of
\* 200 and 201 characters and of 150 characters followed by 60 spaces.
UnitFallbackReplies ==
  { Str(<<"h","i">>),
    Str(<<SP,"h","i",NL>>),
    Str(<<"U56DE","U7B54",":",SP,"z">>),
    Str(<<"U8CEA","U554F",":",NL,"U56DE","U7B54",":",SP,"z">>),
    Str(Rep("x", FallbackLen)),
    Str(Rep("x", FallbackLen + 1)),
    Str(Rep("x", FallbackLen - 50) \o Rep(SP, 60)) }

UnitReplies == ModelReplies \cup AnswerReplies \cup UnitFallbackReplies

\* The grading of submit_answer on a QA row and a submission.
CallSubmitAnswer(row, answer) ==
  /\ unit_call.fn = "none"
  /\ unit_call' = [fn |-> "submit_answer", qa |-> row, answer |-> answer]
  /\ unit_result' = Some(IsCorrect(row, answer))
  /\ UNCHANGED <<genVars, ansVars, docVars, apiVars, svcVars, callVars>>

\* _parse_qa_response on a reply.
CallParseQAResponse(reply, d, qt) ==
  /\ unit_call.fn = "none"
  /\ unit_call' = [fn |-> "_parse_qa_response", response |-> reply,
                   difficulty |-> d, question_type |-> qt]
  /\ unit_result' = IF ParseQAResponse(reply, d, qt) = None THEN None
                    ELSE Some(ParseQAResponse(reply, d, qt)[1])
  /\ UNCHANGED <<genVars, ansVars, docVars, apiVars, svcVars, callVars>>

UnitInit ==
  GenIdle /\ AnsIdle /\ UnitIdle /\ DocIdle /\ ApiIdle /\ SvcIdle /\ CallsIdle

UnitNext ==
  \/ \E a \in UnitStoredAnswers, qt \in QuestionTypes, sub \in UnitSubmissions :
       CallSubmitAnswer(UnitRow(a, qt), sub)
  \/ \E reply \in UnitReplies, d \in Difficulties, qt \in QuestionTypes :
       CallParseQAResponse(reply, d, qt)

UnitSpec == UnitInit /\ [][UnitNext]_vars

\* ------------------------------------------- claims on grading and parsing

\* The lower-cased tokens of a text: its maximal runs without whitespace.
TokenSet(text) ==
  LET s    == Lower(text)
      runs == { ij \in (1..Len(s)) \X (1..Len(s)) :
                  /\ ij[1] <= ij[2]
                  /\ \A k \in ij[1]..ij[2] : s[k] \notin Whitespace
                  /\ (ij[1] = 1 \/ s[ij[1] - 1] \in Whitespace)
                  /\ (ij[2] = Len(s) \/ s[ij[2] + 1] \in Whitespace) }
  IN  { SubSeq(s, ij[1], ij[2]) : ij \in runs }

\* The keyword verdict on the token sets S of the stored answer and T of the
\* submission: half of S or more, or both empty.
KeywordVerdict(S, T) ==
  IF S = {} THEN T = {}
  ELSE 2 * Cardinality(S \cap T) >= Cardinality(S)

\* A grading call on a row that is graded by keywords.
KeywordGradingCall ==
  /\ unit_call.fn = "submit_answer"
  /\ unit_call.qa.question_type # "multiple_choice"

\* C12: on a row that is not multiple_choice the verdict is correct iff at
\* least half of the lower-cased whitespace-delimited tokens of the stored
\* answer are tokens of the submission; when the stored answer has no token
\* the verdict is correct iff the submission has none.
C12_KeywordGrading ==
  KeywordGradingCall =>
    (unit_result[1] <=> KeywordVerdict(TokenSet(unit_call.qa.answer),
                                       TokenSet(unit_call.answer)))

\* C12 witness: 3 of 5 stored keywords present, graded correct.
C12_Witness ==
  /\ KeywordGradingCall
  /\ Cardinality(TokenSet(unit_call.qa.answer)) = 5
  /\ Cardinality(TokenSet(unit_call.qa.answer) \cap TokenSet(unit_call.answer)) = 3
  /\ unit_result = Some(TRUE)

\* The blob holds the correct marker followed, after any whitespace, by a
\* letter of A-D.
HasMarkerLetter(blob) ==
  \E p \in 1..Len(blob), q \in 1..Len(blob) :
    /\ p + Len(CorrectMarker) <= q
    /\ SubSeq(blob, p, p + Len(CorrectMarker) - 1) = CorrectMarker
    /\ \A k \in (p + Len(CorrectMarker))..(q - 1) : blob[k] \in Whitespace
    /\ blob[q] \in ChoiceLetterSet

\* A stored multiple_choice row without a recoverable correct marker.
NoMarkerRow ==
  /\ qa_row # None
  /\ qa_row[1].question_type = "multiple_choice"
  /\ ~HasMarkerLetter(qa_row[1].answer)

\* C13: for a multiple_choice row whose stored answer has no recoverable
\* correct marker, every submission is graded, and its verdict is the keyword
\* verdict on the stored answer and the submission.
C13_NoMarkerFallsBackToKeywords ==
  NoMarkerRow =>
    \A i \in 1..Len(student_answers) :
      student_answers[i].is_correct
        <=> KeywordVerdict(TokenSet(qa_row[1].answer),
                           TokenSet(student_answers[i].answer))

\* C13 witness: a submission to such a row that the keyword verdict accepts.
C13_Witness ==
  /\ NoMarkerRow
  /\ Len(student_answers) = 1
  /\ student_answers[1].is_correct

\* No line of the reply starts, after its leading whitespace, with a question
\* marker.
NoQuestionLine(response) ==
  \A i \in 1..Len(Split(response, NL)) :
    LET line == Strip(Split(response, NL)[i])
    IN  ~IsPrefix(QuestionMarker, line) /\ ~IsPrefix(QuestionMarkerEn, line)

\* A call of the parser on a str reply without a question line.
FallbackCall ==
  /\ unit_call.fn = "_parse_qa_response"
  /\ unit_call.response # NotStr
  /\ NoQuestionLine(unit_call.response[1])

\* C14 as stated: for every reply without a question line the parser returns
\* an item whose question is the first 200 characters of the raw reply and
\* whose answer is the placeholder.
C14_Original_First200OfRawReply ==
  FallbackCall =>
    /\ unit_result # None
    /\ unit_result[1].question = Prefix(unit_call.response[1], FallbackLen)
    /\ unit_result[1].answer = SeeMaterialText

\* C14: for every str reply without a question line the parser returns an
\* item, never None; its answer is the placeholder and its question is the
\* reply without its surrounding whitespace, cut to 200 characters and
\* followed by "..." when the raw reply is longer than 200 characters.
C14_FallbackItemForReplyWithoutQuestion ==
  FallbackCall =>
    LET raw      == unit_call.response[1]
        stripped == Strip(raw)
        cut      == SubSeq(stripped, 1, Min(Len(stripped), FallbackLen))
    IN  /\ unit_result # None
        /\ unit_result[1].answer = SeeMaterialText
        /\ unit_result[1].difficulty = unit_call.difficulty
        /\ unit_result[1].question_type = unit_call.question_type
        /\ Len(raw) <= FallbackLen => unit_result[1].question = stripped
        /\ Len(raw) > FallbackLen =>
             unit_result[1].question = cut \o <<".", ".", ".">>

\* C14 witness: a reply of 201 characters without a question line, parsed to
\* an item whose question has 203.
C14_Witness ==
  /\ FallbackCall
  /\ Len(unit_call.response[1]) = FallbackLen + 1
  /\ unit_result # None
  /\ Len(unit_result[1].question) = FallbackLen + 3

\* ------------------------------------------- document processing: reading

chunk_size    == 1000
chunk_overlap == 200
PdfTextMin    == 100
OcrTextMin    == 50

\* Path(file_path).suffix: the final component from its last dot on, when
\* that dot is neither its first nor its last character.
Suffix(name) ==
  LET dots == {i \in 1..Len(name) : name[i] = "."}
  IN  IF dots = {} THEN <<>>
      ELSE LET last == CHOOSE i \in dots : \A j \in dots : j <= i
           IN  IF last = 1 \/ last = Len(name) THEN <<>>
               ELSE From(name, last)

\* s.endswith(t)
EndsWith(s, t) ==
  Len(t) <= Len(s) /\ SubSeq(s, Len(s) - Len(t) + 1, Len(s)) = t

ExtTxt  == <<".", "t", "x", "t">>
ExtPdf  == <<".", "p", "d", "f">>
ExtDocx == <<".", "d", "o", "c", "x">>
ExtDoc  == <<".", "d", "o", "c">>

\* text += page_text + "\n" over the pages
RECURSIVE ConcatPages(_, _)
ConcatPages(pages, i) ==
  IF i > Len(pages) THEN <<>>
  ELSE pages[i][1] \o <<NL>> \o ConcatPages(pages, i + 1)

\* What a reader hands back: the text, and whether OCR ran on the way.
ReadResult(text, ocr) == [content |-> text, ocr_invoked |-> ocr]

\* _read_pdf_with_ocr: the pages are rasterized and recognized; a text of
\* more than 50 characters is returned, anything else, an exception
\* included, gives "".
ReadPdfWithOcr(file) ==
  IF file.ocr = None \/ \E i \in 1..Len(file.ocr[1]) : file.ocr[1][i] = None
  THEN ReadResult(<<>>, TRUE)
  ELSE LET text == ConcatPages(file.ocr[1], 1)
       IN  IF Len(Strip(text)) > OcrTextMin
           THEN ReadResult(text, TRUE)
           ELSE ReadResult(<<>>, TRUE)

\* A text-layer gate that accepts a text of exactly 100 characters.
ReadPdfInclusive(file) ==
  IF file.layer = None \/ \E i \in 1..Len(file.layer[1]) : file.layer[1][i] = None
  THEN ReadPdfWithOcr(file)
  ELSE LET text == ConcatPages(file.layer[1], 1)
       IN  IF Len(Strip(text)) >= PdfTextMin
           THEN ReadResult(text, FALSE)
           ELSE ReadPdfWithOcr(file)

\* _read_pdf: the text layer when it has more than 100 characters, the OCR
\* fallback when it has not or when PyPDF2 raises.
ReadPdf(file) ==
  IF file.layer = None \/ \E i \in 1..Len(file.layer[1]) : file.layer[1][i] = None
  THEN ReadPdfWithOcr(file)
  ELSE LET text == ConcatPages(file.layer[1], 1)
       IN  IF Len(Strip(text)) > PdfTextMin
           THEN ReadResult(text, FALSE)
           ELSE ReadPdfWithOcr(file)

\* text += cell.text + " " over the cells of a row
RECURSIVE ConcatCells(_, _)
ConcatCells(cells, i) ==
  IF i > Len(cells) THEN <<>>
  ELSE cells[i] \o <<SP>> \o ConcatCells(cells, i + 1)

\* the rows of the tables, each followed by a newline
RECURSIVE ConcatRows(_, _)
ConcatRows(rows, i) ==
  IF i > Len(rows) THEN <<>>
  ELSE ConcatCells(rows[i], 1) \o <<NL>> \o ConcatRows(rows, i + 1)

\* _read_word_document: the paragraphs of a .docx, each followed by a
\* newline, then the rows of its tables; "" for a .doc and for a file
\* python-docx cannot open.
ReadWordDocument(file) ==
  IF EndsWith(Lower(file.name), ExtDocx)
  THEN IF file.docx = None THEN ReadResult(<<>>, FALSE)
       ELSE ReadResult(ConcatPages(file.docx[1].paragraphs, 1)
                         \o ConcatRows(file.docx[1].rows, 1), FALSE)
  ELSE ReadResult(<<>>, FALSE)

\* open(file_path, 'r', encoding='utf-8').read(); the handler of _read_file
\* turns an exception into "".
ReadText(file) ==
  IF file.text = None THEN ReadResult(<<>>, FALSE)
  ELSE ReadResult(file.text[1], FALSE)

\* _read_file: the reader is chosen by the lower-cased extension; a file of
\* any other extension is read as UTF-8 text.
ReadFile(file) ==
  LET file_extension == Lower(Suffix(file.name))
  IN  IF file_extension = ExtTxt THEN ReadText(file)
      ELSE IF file_extension = ExtPdf THEN ReadPdf(file)
      ELSE IF file_extension \in {ExtDocx, ExtDoc} THEN ReadWordDocument(file)
      ELSE ReadText(file)

\* ------------------------------------------- document processing: steps

\* text_splitter.create_documents on a text without separators: windows of
\* chunk_size characters, each starting chunk_overlap characters before the
\* end of the one before, stripped; a blank text gives no chunk.
RECURSIVE Windows(_, _)
Windows(text, start) ==
  IF start + chunk_size - 1 >= Len(text)
  THEN <<SubSeq(text, start, Len(text))>>
  ELSE <<SubSeq(text, start, start + chunk_size - 1)>>
         \o Windows(text, start + chunk_size - chunk_overlap)

CreateDocuments(content) ==
  IF Strip(content) = <<>> THEN <<>>
  ELSE [i \in 1..Len(Windows(Strip(content), 1)) |->
          Strip(Windows(Strip(content), 1)[i])]

\* doc.metadata = {"lecture_id": ..., "source": ...} on every document
WithMetadata(documents, lecture_id, file_path) ==
  [i \in 1..Len(documents) |->
     [page_content |-> documents[i],
      lecture_id   |-> lecture_id,
      source       |-> file_path]]

\* A process_document that saves an empty index when it read no text.
ProcessDocumentIndexesEmpty(file, lecture_id, embed_ok) ==
  LET read      == ReadFile(file)
      documents == WithMetadata(CreateDocuments(read.content), lecture_id,
                                file.name)
  IN  IF read.content = <<>>
      THEN [returned |-> FALSE, index |-> Some(<<>>), read |-> read]
      ELSE IF documents = <<>> \/ ~embed_ok
      THEN [returned |-> FALSE, index |-> None, read |-> read]
      ELSE [returned |-> TRUE, index |-> Some(documents), read |-> read]

\* process_document on a file: what it returns, the index it saves (None
\* when it saves none) and what it read.  embed_ok says whether the embedding
\* call of FAISS.from_documents comes back; with no document it raises.
ProcessDocument(file, lecture_id, embed_ok) ==
  LET read      == ReadFile(file)
      documents == WithMetadata(CreateDocuments(read.content), lecture_id,
                                file.name)
  IN  IF read.content = <<>>
      THEN [returned |-> FALSE, index |-> None, read |-> read]
      ELSE IF documents = <<>> \/ ~embed_ok
      THEN [returned |-> FALSE, index |-> None, read |-> read]
      ELSE [returned |-> TRUE, index |-> Some(documents), read |-> read]

MaxProcessCalls == 2

\* A file on disk: its name, what reading it as UTF-8 text gives (None when
\* that raises), the text layer PyPDF2 finds page by page (None when it
\* raises), what OCR recognizes page by page, and what python-docx finds.
File(name, text, layer, ocr, docx) ==
  [name |-> name, text |-> text, layer |-> layer, ocr |-> ocr, docx |-> docx]

TextFiles ==
  { \* "a.txt" and "A.TXT" with a text, "e.txt" empty, "b.txt" not UTF-8,
    \* "w.txt" blank, "l.txt" of 1001 characters
    File(<<"a",".","t","x","t">>, Some(<<"h","i",SP,"y","o","u">>), None, None, None),
    File(<<"A",".","T","X","T">>, Some(<<"u","p">>), None, None, None),
    File(<<"e",".","t","x","t">>, Some(<<>>), None, None, None),
    File(<<"b",".","t","x","t">>, None, None, None, None),
    File(<<"w",".","t","x","t">>, Some(<<SP,NL>>), None, None, None),
    File(<<"l",".","t","x","t">>, Some(Rep("y", chunk_size + 1)), None, None, None) }

OtherFiles ==
  { \* "n.md" with a text, "i.png" that is not text, "README" and ".env"
    File(<<"n",".","m","d">>, Some(<<"m","d">>), None, None, None),
    File(<<"i",".","p","n","g">>, None, None, None, None),
    File(<<"R","E","A","D","M","E">>, Some(<<"r">>), None, None, None),
    File(<<".","e","n","v">>, Some(<<"k","=","v">>), None, None, None) }

PdfFiles ==
  { \* a text layer of 101 characters
    File(<<"p","1",".","p","d","f">>, None,
         Some(<<Some(Rep("x", PdfTextMin + 1))>>), Some(<<Some(Rep("o", 60))>>), None),
    \* a text layer of 100 characters, OCR of 51
    File(<<"p","2",".","p","d","f">>, None,
         Some(<<Some(Rep("x", PdfTextMin))>>),
         Some(<<Some(Rep("o", OcrTextMin + 1))>>), None),
    \* 100 characters and a space, OCR of 50 and a space
    File(<<"p","3",".","p","d","f">>, None,
         Some(<<Some(Rep("x", PdfTextMin) \o <<SP>>)>>),
         Some(<<Some(Rep("o", OcrTextMin) \o <<SP>>)>>), None),
    \* two pages of 50 characters: 101 with the newline between them
    File(<<"p","4",".","P","D","F">>, None,
         Some(<<Some(Rep("x", 50)), Some(Rep("x", 50))>>), None, None),
    \* PyPDF2 raises on the second page, OCR of two pages, 52 in all
    File(<<"p","5",".","p","d","f">>, None,
         Some(<<Some(Rep("x", PdfTextMin + 1)), None>>),
         Some(<<Some(Rep("o", 26)), Some(Rep("o", 25))>>), None),
    \* a scan without text layer on a host without tesseract
    File(<<"p","6",".","p","d","f">>, None, Some(<<Some(<<>>)>>), None, None),
    \* not a PDF at all: both readers raise
    File(<<"p","7",".","p","d","f">>, Some(<<"t">>), None, None, None) }

WordFiles ==
  { \* a .docx with a paragraph and a table cell, a broken one, a .doc
    File(<<"d",".","d","o","c","x">>, None, None, None,
         Some([paragraphs |-> <<Some(<<"p">>)>>, rows |-> << << <<"c">> >> >>])),
    File(<<"c",".","D","o","c","x">>, None, None, None, None),
    File(<<"o",".","d","o","c">>, Some(<<"o">>), None, None, None) }

Files == TextFiles \cup OtherFiles \cup PdfFiles \cup WordFiles

\* allowed_extensions of /upload
AllowedExtensions == {ExtTxt, ExtPdf, ExtDocx, ExtDoc}

\* The paths of the files on disk, and the file at a path.
FilePaths == {f.name : f \in Files}
FileAt(file_path) == CHOOSE f \in Files : f.name = file_path

\* The files the uploads are drawn from: one that is processed, one that is
\* accepted but empty, one whose extension /upload rejects.
UploadPaths ==
  { <<"a",".","t","x","t">>, <<"e",".","t","x","t">>, <<"n",".","m","d">> }

\* The lecture the uploads are for.
UploadIds == {1}

\* process_document on every file, evaluated once.
ProcessedDocuments ==
  [file_path \in FilePaths, id \in LectureIds, embed_ok \in BOOLEAN |->
     ProcessDocument(FileAt(file_path), id, embed_ok)]

\* A build that adds its documents to the ones the index already holds.
ProcessedMerging(file_path, lecture_id, embed_ok) ==
  LET out == ProcessedDocuments[file_path, lecture_id, embed_ok]
      old == IF saved_index[lecture_id] = None THEN <<>>
             ELSE saved_index[lecture_id][1]
  IN  /\ process_calls < MaxProcessCalls
      /\ process_calls' = process_calls + 1
      /\ saved_index' = IF out.index = None THEN saved_index
                        ELSE [saved_index EXCEPT
                                ![lecture_id] = Some(old \o out.index[1])]
      /\ last_process' = Some([file_path   |-> file_path,
                               lecture_id  |-> lecture_id,
                               content     |-> out.read.content,
                               ocr_invoked |-> out.read.ocr_invoked,
                               returned    |-> out.returned])

\* What a call of process_document leaves behind.
Processed(file_path, lecture_id, embed_ok) ==
  LET out == ProcessedDocuments[file_path, lecture_id, embed_ok]
  IN  /\ process_calls < MaxProcessCalls
      /\ process_calls' = process_calls + 1
      /\ saved_index' = IF out.index = None THEN saved_index
                        ELSE [saved_index EXCEPT ![lecture_id] = out.index]
      /\ last_process' = Some([file_path   |-> file_path,
                               lecture_id  |-> lecture_id,
                               content     |-> out.read.content,
                               ocr_invoked |-> out.read.ocr_invoked,
                               returned    |-> out.returned])

\* qa_generator.process_document called directly.
ProcessDocumentCall(file_path, lecture_id, embed_ok) ==
  /\ Processed(file_path, lecture_id, embed_ok)
  /\ UNCHANGED <<lecture_materials, pending_tasks, upload_status,
                 upload_response>>
  /\ UNCHANGED <<genVars, ansVars, unitVars, apiVars, svcVars, callVars>>

\* The UploadResponse of an accepted /upload, and the HTTPException of one
\* that is not.
UploadResponse(lecture_id, filename) ==
  [status_code |-> 200, success |-> TRUE, lecture_id |-> lecture_id,
   filename |-> filename, status |-> "processing"]

UploadError(status_code) == [status_code |-> status_code, success |-> FALSE]

\* An /upload that writes the row and answers, and schedules nothing.
UploadDocumentUnscheduled(filename, lecture_id) ==
  /\ IF Lower(Suffix(filename)) \notin AllowedExtensions
       \/ lecture_materials[lecture_id] # None
     THEN /\ upload_status' = 400
          /\ upload_response' = Some(UploadError(400))
          /\ UNCHANGED lecture_materials
     ELSE /\ upload_status' = 200
          /\ upload_response' = Some(UploadResponse(lecture_id, filename))
          /\ lecture_materials' =
               [lecture_materials EXCEPT
                  ![lecture_id] = Some([filename |-> filename,
                                        status   |-> "processing"])]
  /\ UNCHANGED <<pending_tasks, saved_index, last_process, process_calls>>
  /\ UNCHANGED <<genVars, ansVars, unitVars, apiVars, svcVars, callVars>>

\* An /upload that does not look for an existing lecture.
UploadDocumentOverwrites(filename, lecture_id) ==
  /\ IF Lower(Suffix(filename)) \notin AllowedExtensions
     THEN /\ upload_status' = 400
          /\ upload_response' = Some(UploadError(400))
          /\ UNCHANGED <<lecture_materials, pending_tasks>>
     ELSE /\ upload_status' = 200
          /\ upload_response' = Some(UploadResponse(lecture_id, filename))
          /\ lecture_materials' =
               [lecture_materials EXCEPT
                  ![lecture_id] = Some([filename |-> filename,
                                        status   |-> "processing"])]
          /\ pending_tasks' =
               pending_tasks \cup
                 {[file_path |-> filename, lecture_id |-> lecture_id]}
  /\ UNCHANGED <<saved_index, last_process, process_calls>>
  /\ UNCHANGED <<genVars, ansVars, unitVars, apiVars, svcVars, callVars>>

\* POST /upload: the extension and the lecture id are checked, the
\* LectureMaterial row is written and the background task scheduled.
UploadDocument(filename, lecture_id) ==
  /\ IF Lower(Suffix(filename)) \notin AllowedExtensions
       \/ lecture_materials[lecture_id] # None
     THEN /\ upload_status' = 400
          /\ upload_response' = Some(UploadError(400))
          /\ UNCHANGED <<lecture_materials, pending_tasks>>
     ELSE /\ upload_status' = 200
          /\ upload_response' = Some(UploadResponse(lecture_id, filename))
          /\ lecture_materials' =
               [lecture_materials EXCEPT
                  ![lecture_id] = Some([filename |-> filename,
                                        status   |-> "processing"])]
          /\ pending_tasks' =
               pending_tasks \cup
                 {[file_path |-> filename, lecture_id |-> lecture_id]}
  /\ UNCHANGED <<saved_index, last_process, process_calls>>
  /\ UNCHANGED <<genVars, ansVars, unitVars, apiVars, svcVars, callVars>>

\* process_document_background: the document is processed once and the
\* status of its lecture set to "ready" or "error".
ProcessDocumentBackground(task, embed_ok) ==
  /\ task \in pending_tasks
  /\ pending_tasks' = pending_tasks \ {task}
  /\ Processed(task.file_path, task.lecture_id, embed_ok)
  /\ lecture_materials' =
       [lecture_materials EXCEPT
          ![task.lecture_id] =
             Some([filename |-> task.file_path,
                   status   |-> IF ProcessedDocuments[task.file_path,
                                                      task.lecture_id,
                                                      embed_ok].returned
                                THEN "ready" ELSE "error"])]
  /\ UNCHANGED <<upload_status, upload_response>>
  /\ UNCHANGED <<genVars, ansVars, unitVars, apiVars, svcVars, callVars>>

DocInit ==
  GenIdle /\ AnsIdle /\ UnitIdle /\ DocIdle /\ ApiIdle /\ SvcIdle /\ CallsIdle

DocNext ==
  \/ \E file_path \in FilePaths, id \in LectureIds, embed_ok \in BOOLEAN :
       ProcessDocumentCall(file_path, id, embed_ok)
  \/ \E filename \in UploadPaths, id \in UploadIds :
       UploadDocument(filename, id)
  \/ \E filename \in UploadPaths, id \in UploadIds, embed_ok \in BOOLEAN :
       ProcessDocumentBackground([file_path |-> filename, lecture_id |-> id],
                                 embed_ok)

DocSpec == DocInit /\ [][DocNext]_vars

\* ------------------------------------------- claims on document processing

RecognizedExtensions == {ExtTxt, ExtPdf, ExtDocx, ExtDoc}

\* The file of the last process_document call.
LastFile == FileAt(last_process[1].file_path)

\* C15: extraction of a file whose extension is none of .txt, .pdf, .docx and
\* .doc produces no text and fails, whatever the file contains.
C15_UnknownExtensionGivesNoText ==
  (last_process # None
     /\ Lower(Suffix(last_process[1].file_path)) \notin RecognizedExtensions) =>
    /\ last_process[1].content = <<>>
    /\ ~last_process[1].returned

\* A page-wise extraction that came back on every page.
CameBack(pages) ==
  pages # None /\ \A i \in 1..Len(pages[1]) : pages[1][i] # None

\* The length the gate measures: that of the pages' texts, a newline after
\* each, without the whitespace at both ends.
ExtractedLength(pages) == Len(Strip(ConcatPages(pages[1], 1)))

TextLayerPasses(file) ==
  CameBack(file.layer) /\ ExtractedLength(file.layer) > 100

OcrPasses(file) ==
  CameBack(file.ocr) /\ ExtractedLength(file.ocr) > 50

ProcessStep == process_calls' = process_calls + 1

\* A call whose extraction yields no text returns False, leaves every saved
\* index as it was and leaves no task behind for its lecture.
NoTextStepOk ==
  (ProcessStep /\ last_process'[1].content = <<>>) =>
    /\ ~last_process'[1].returned
    /\ saved_index' = saved_index
    /\ pending_tasks' \subseteq pending_tasks
    /\ \A id \in LectureIds :
         (lecture_materials'[id] # lecture_materials[id]) =>
           lecture_materials'[id][1].status = "error"

\* C17: whenever extraction yields no text, process_document reports failure,
\* is not run again for the document, and neither creates nor overwrites the
\* saved index of the lecture.
C17_NoTextFailsAndKeepsIndex == [][NoTextStepOk]_vars

\* C17 witness: a lecture whose index was saved earlier, after a call for it
\* that read no text and failed.
C17_Witness ==
  /\ last_process # None
  /\ last_process[1].content = <<>>
  /\ ~last_process[1].returned
  /\ saved_index[last_process[1].lecture_id] # None

\* The texts the files give, and the chunks of each, evaluated once.
Contents == {ReadFile(FileAt(file_path)).content : file_path \in FilePaths}
ChunksOf == [content \in Contents |-> CreateDocuments(content)]

\* A successful build puts exactly its own chunks into the index of its
\* lecture and leaves the other indexes as they were.
BuildStepOk ==
  (ProcessStep /\ last_process'[1].returned) =>
    LET id     == last_process'[1].lecture_id
        chunks == ChunksOf[last_process'[1].content]
    IN  /\ saved_index'[id] # None
        /\ Len(saved_index'[id][1]) = Len(chunks)
        /\ \A i \in 1..Len(chunks) :
             /\ saved_index'[id][1][i].page_content = chunks[i]
             /\ saved_index'[id][1][i].lecture_id = id
             /\ saved_index'[id][1][i].source = last_process'[1].file_path
        /\ \A other \in LectureIds \ {id} :
             saved_index'[other] = saved_index[other]

\* C18: the index of a lecture holds exactly the chunks of the most recent
\* successful build for it, never the union with earlier builds, and a build
\* for one lecture leaves the indexes of the others unchanged.
C18_RebuildReplacesIndex == [][BuildStepOk]_vars

\* C18 witness: lecture 1 was built from "a.txt" by the background task and
\* then rebuilt from the 1001 characters of "l.txt": its index holds the two
\* chunks of "l.txt".
C18_Witness ==
  /\ lecture_materials[1] # None
  /\ lecture_materials[1][1].status = "ready"
  /\ last_process # None
  /\ last_process[1].returned
  /\ last_process[1].lecture_id = 1
  /\ last_process[1].file_path = <<"l",".","t","x","t">>
  /\ Len(saved_index[1][1]) = 2

\* ------------------------------------------- the /generate_qa endpoint

\* valid_difficulties
ValidDifficulties == {"easy", "medium", "hard"}

\* num_questions: int = Field(default=5, ge=1, le=20)
NumQuestionsMin == 1
NumQuestionsMax == 20

\* The LectureMaterial table when the request arrives: lecture 1 ready and
\* lecture 2 still processing, or lecture 1 failed and lecture 2 unknown.
LectureTables ==
  { [id \in LectureIds |->
       IF id = 1
       THEN Some([filename |-> <<"a",".","t","x","t">>, status |-> "ready"])
       ELSE Some([filename |-> <<"e",".","t","x","t">>, status |-> "processing"])],
    [id \in LectureIds |->
       IF id = 1
       THEN Some([filename |-> <<"e",".","t","x","t">>, status |-> "error"])
       ELSE None] }

\* The QA row the endpoint writes for an item.
StoredRow(lecture_id, item) ==
  [lecture_id    |-> lecture_id,
   question      |-> item.question,
   answer        |-> item.answer,
   difficulty    |-> item.difficulty,
   question_type |-> item.question_type]

\* The QA table before the request: empty, or with a row of an earlier one.
EarlierRows ==
  { <<>>,
    <<StoredRow(1, [question      |-> <<"W","h","y","?">>,
                    answer        |-> <<"x">>,
                    difficulty    |-> "easy",
                    question_type |-> "short_answer"])>> }

\* The requests: a lecture, a difficulty that is valid or not, a number of
\* questions inside and outside 1..20, and the default or an empty type list.
Requests ==
  [lecture_id     : LectureIds,
   difficulty     : {"medium", "extreme"},
   num_questions  : {0, 1, 2, 3},
   question_types : {None, Some(<<>>)}]

\* The response of a rejected or failed request.
ErrorResponse(status_code) ==
  [status_code |-> status_code, generated_count |-> 0, qa_items |-> <<>>]

\* The request stops before the generator: the response is an error and the
\* QA table is left alone.
Rejected(req, status_code) ==
  /\ api_pc' = "responded"
  /\ request' = Some(req)
  /\ api_response' = Some(ErrorResponse(status_code))
  /\ UNCHANGED <<qa_table, generator_calls>>
  /\ UNCHANGED genVars

\* The checks pass: qa_generator.generate_qa is entered with the arguments of
\* the request.
GeneratorEntered(req, idx) ==
  /\ api_pc' = "generating"
  /\ request' = Some(req)
  /\ generator_calls' = generator_calls + 1
  /\ UNCHANGED <<api_response, qa_table>>
  /\ pc' = "start"
  /\ index_state' = idx
  /\ num_questions' = req.num_questions
  /\ difficulty' = req.difficulty
  /\ arg_question_types' = req.question_types
  /\ UNCHANGED <<question_types, generated_qas, generated_questions,
                 max_attempts, attempts, question_type, elapsed, returned,
                 escaped, exit_path, model_calls, iterations, last_event,
                 last_key>>

\* An endpoint that looks the lecture up before it checks the difficulty.
GenerateQARequestLectureFirst(req, idx) ==
  /\ api_pc = "idle"
  /\ IF req.num_questions < NumQuestionsMin \/ req.num_questions > NumQuestionsMax
     THEN Rejected(req, 422)
     ELSE IF lecture_materials[req.lecture_id] = None
     THEN Rejected(req, 404)
     ELSE IF req.difficulty \notin ValidDifficulties
     THEN Rejected(req, 400)
     ELSE IF lecture_materials[req.lecture_id][1].status # "ready"
     THEN Rejected(req, 400)
     ELSE GeneratorEntered(req, idx)
  /\ UNCHANGED <<ansVars, unitVars, docVars, svcVars, callVars>>

\* POST /generate_qa up to the call of the generator: the request model is
\* validated, then the difficulty, the lecture and its status are checked.
GenerateQARequest(req, idx) ==
  /\ api_pc = "idle"
  /\ IF req.num_questions < NumQuestionsMin \/ req.num_questions > NumQuestionsMax
     THEN Rejected(req, 422)
     ELSE IF req.difficulty \notin ValidDifficulties
     THEN Rejected(req, 400)
     ELSE IF lecture_materials[req.lecture_id] = None
     THEN Rejected(req, 404)
     ELSE IF lecture_materials[req.lecture_id][1].status # "ready"
     THEN Rejected(req, 400)
     ELSE GeneratorEntered(req, idx)
  /\ UNCHANGED <<ansVars, unitVars, docVars, svcVars, callVars>>

\* qa_items as rows of the lecture
RowsOf(lecture_id, qa_items) ==
  [i \in 1..Len(qa_items) |-> StoredRow(lecture_id, qa_items[i])]

\* qa_response_items
ResponseItems(qa_items) ==
  [i \in 1..Len(qa_items) |->
     [question      |-> qa_items[i].question,
      answer        |-> qa_items[i].answer,
      difficulty    |-> qa_items[i].difficulty,
      question_type |-> qa_items[i].question_type]]

\* An endpoint that treats a batch smaller than requested as an error.
GenerateQARespondStrict ==
  /\ api_pc = "generating"
  /\ pc = "done"
  /\ api_pc' = "responded"
  /\ IF escaped
     THEN /\ api_response' = Some(ErrorResponse(500))
          /\ UNCHANGED qa_table
     ELSE IF Len(returned) < request[1].num_questions
     THEN /\ api_response' = Some(ErrorResponse(422))
          /\ UNCHANGED qa_table
     ELSE /\ qa_table' = qa_table \o RowsOf(request[1].lecture_id, returned)
          /\ api_response' = Some([status_code     |-> 200,
                                   generated_count |-> Len(ResponseItems(returned)),
                                   qa_items        |-> ResponseItems(returned)])
  /\ UNCHANGED <<request, generator_calls>>
  /\ UNCHANGED <<genVars, ansVars, unitVars, docVars, svcVars, callVars>>

\* POST /generate_qa once the generator is back: an empty list is answered
\* with 422, any other list is stored row by row and answered with 200; an
\* exception out of the generator would be answered with 500.
GenerateQARespond ==
  /\ api_pc = "generating"
  /\ pc = "done"
  /\ api_pc' = "responded"
  /\ IF escaped
     THEN /\ api_response' = Some(ErrorResponse(500))
          /\ UNCHANGED qa_table
     ELSE IF returned = <<>>
     THEN /\ api_response' = Some(ErrorResponse(422))
          /\ UNCHANGED qa_table
     ELSE /\ qa_table' = qa_table \o RowsOf(request[1].lecture_id, returned)
          /\ api_response' = Some([status_code     |-> 200,
                                   generated_count |-> Len(ResponseItems(returned)),
                                   qa_items        |-> ResponseItems(returned)])
  /\ UNCHANGED <<request, generator_calls>>
  /\ UNCHANGED <<genVars, ansVars, unitVars, docVars, svcVars, callVars>>

ApiInit ==
  /\ GenIdle /\ AnsIdle /\ UnitIdle /\ SvcIdle /\ CallsIdle
  /\ lecture_materials \in LectureTables
  /\ saved_index = [id \in LectureIds |-> None]
  /\ pending_tasks = {}
  /\ upload_status = 0
  /\ upload_response = None
  /\ last_process = None
  /\ process_calls = 0
  /\ api_pc = "idle"
  /\ request = None
  /\ api_response = None
  /\ qa_table \in EarlierRows
  /\ generator_calls = 0

ApiNext ==
  \/ \E req \in Requests, idx \in IndexStates : GenerateQARequest(req, idx)
  \/ Next
  \/ GenerateQARespond

ApiSpec == ApiInit /\ [][ApiNext]_vars

\* ------------------------------------------- claims on /generate_qa

\* The rows the request has added to the QA table: those after the rows of
\* an earlier request.
AddedRows(rows) == \E earlier \in EarlierRows : qa_table = earlier \o rows

\* C19: once the generator was invoked, a non-empty result, smaller than
\* requested or not, is answered with 200, generated_count is the number of
\* items produced and exactly those items are stored as QA rows; an empty
\* result is answered with 422 and no row is stored.
C19_PartialResultIsSuccess ==
  /\ api_pc = "generating" => AddedRows(<<>>)
  /\ (api_pc = "responded" /\ generator_calls > 0) =>
       IF returned = <<>>
       THEN /\ api_response[1].status_code = 422
            /\ AddedRows(<<>>)
       ELSE /\ api_response[1].status_code = 200
            /\ api_response[1].generated_count = Len(returned)
            /\ Len(api_response[1].qa_items) = Len(returned)
            /\ AddedRows([i \in 1..Len(returned) |->
                 [lecture_id    |-> request[1].lecture_id,
                  question      |-> returned[i].question,
                  answer        |-> returned[i].answer,
                  difficulty    |-> returned[i].difficulty,
                  question_type |-> returned[i].question_type]])

\* C19 witness: three questions requested, one produced: 200 with
\* generated_count 1 and one row added.
C19_Witness ==
  /\ api_pc = "responded"
  /\ request[1].num_questions = 3
  /\ Len(returned) = 1
  /\ api_response[1].status_code = 200
  /\ api_response[1].generated_count = 1
  /\ \E earlier \in EarlierRows : Len(qa_table) = Len(earlier) + 1

\* A request that passed the validation of the request model.
WellFormedRequest ==
  /\ request # None
  /\ request[1].num_questions \in 1..20

RequestedLecture == lecture_materials[request[1].lecture_id]

\* C20: a request with a difficulty outside easy/medium/hard is answered 400,
\* even when its lecture does not exist; otherwise a request for a lecture
\* that does not exist is answered 404; otherwise a request for a lecture
\* whose status is not "ready" is answered 400; the generator is invoked only
\* when all three checks pass, and a rejected request writes no QA row.
C20_ChecksInOrder ==
  WellFormedRequest =>
    LET bad_difficulty  == request[1].difficulty \notin {"easy", "medium", "hard"}
        no_lecture      == RequestedLecture = None
        not_ready       == ~no_lecture /\ RequestedLecture[1].status # "ready"
    IN  /\ bad_difficulty =>
             api_response # None /\ api_response[1].status_code = 400
        /\ (~bad_difficulty /\ no_lecture) =>
             api_response # None /\ api_response[1].status_code = 404
        /\ (~bad_difficulty /\ not_ready) =>
             api_response # None /\ api_response[1].status_code = 400
        /\ (bad_difficulty \/ no_lecture \/ not_ready) =>
             /\ generator_calls = 0
             /\ pc = "idle"
             /\ AddedRows(<<>>)
        /\ generator_calls > 0 => ~(bad_difficulty \/ no_lecture \/ not_ready)

\* C20 witness: an invalid difficulty for a lecture that does not exist,
\* answered 400.
C20_Witness ==
  /\ WellFormedRequest
  /\ request[1].difficulty \notin {"easy", "medium", "hard"}
  /\ RequestedLecture = None
  /\ api_response[1].status_code = 400
  /\ generator_calls = 0

\* ---------------------------------------------------- claims on /upload

\* The extension is one /upload supports and no row has the lecture id.
UploadAccepted(filename, lecture_id) ==
  /\ Lower(Suffix(filename)) \in AllowedExtensions
  /\ lecture_materials[lecture_id] = None

\* What an accepted /upload of the file for the lecture does in one step.
AcceptedUploadStepOk ==
  \A filename \in UploadPaths, id \in UploadIds :
    (UploadDocument(filename, id) /\ UploadAccepted(filename, id)) =>
      /\ lecture_materials' =
           [lecture_materials EXCEPT
              ![id] = Some([filename |-> filename, status |-> "processing"])]
      /\ \E task \in pending_tasks' \ pending_tasks :
           /\ pending_tasks' = pending_tasks \cup {task}
           /\ task.lecture_id = id
           /\ task.file_path = filename
      /\ upload_response' # None
      /\ upload_response'[1].status_code = 200
      /\ upload_response'[1].success
      /\ upload_response'[1].lecture_id = id
      /\ upload_response'[1].status = "processing"

\* The background task does not touch the answer the upload gave.
BackgroundKeepsAnswer ==
  \A task \in pending_tasks, embed_ok \in BOOLEAN :
    ProcessDocumentBackground(task, embed_ok) =>
      upload_response' = upload_response

C21_StepOk == AcceptedUploadStepOk /\ BackgroundKeepsAnswer

\* C21: an /upload with a supported extension for a lecture id that has no
\* row writes exactly one LectureMaterial row, with status "processing",
\* schedules exactly one background task, for that lecture, and answers
\* success with status "processing"; the answer stays what it was when the
\* task later succeeds or fails.
C21_AcceptedUpload == [][C21_StepOk]_vars

\* The upload was answered with success and its processing failed later.
C21_Witness ==
  /\ upload_response # None
  /\ upload_response[1].success
  /\ upload_response[1].status = "processing"
  /\ lecture_materials[1] # None
  /\ lecture_materials[1][1].status = "error"
  /\ pending_tasks = {}

\* What a rejected /upload does in one step.
C22_StepOk ==
  \A filename \in UploadPaths, id \in UploadIds :
    (UploadDocument(filename, id) /\ ~UploadAccepted(filename, id)) =>
      /\ upload_response' = Some(UploadError(400))
      /\ upload_status' = 400
      /\ lecture_materials' = lecture_materials
      /\ pending_tasks' = pending_tasks

\* C22: an /upload whose extension is not supported, or whose lecture id
\* already has a row, is answered with 400, changes no LectureMaterial row
\* and schedules no background task.
C22_RejectedUpload == [][C22_StepOk]_vars

\* An upload for a lecture that exists was refused, after one with an
\* unsupported extension would have been: the row is the first upload's.
C22_Witness ==
  /\ upload_response = Some(UploadError(400))
  /\ lecture_materials[1] # None
  /\ lecture_materials[1][1].filename = <<"a",".","t","x","t">>
  /\ lecture_materials[1][1].status = "ready"

\* ------------------------------- the service, its requests taken step by step

\* The index directory of a lecture that os.makedirs created and save_local
\* did not fill.
EmptyIndexDir == Some(<<>>)

\* os.path.exists(index_path) for the lecture.
IndexPathExists(lecture_id) == saved_index[lecture_id] # None

\* The lecture has an index that save_local wrote.
IndexSaved(lecture_id) ==
  /\ saved_index[lecture_id] # None
  /\ saved_index[lecture_id] # EmptyIndexDir

\* A process_document that returns True although save_local raised.
ProcessReturnedIgnoresSave(file_path, lecture_id, embed_ok, save_ok) ==
  ProcessedDocuments[file_path, lecture_id, embed_ok].returned

\* What process_document returns when save_local may raise.
ProcessReturned(file_path, lecture_id, embed_ok, save_ok) ==
  ProcessedDocuments[file_path, lecture_id, embed_ok].returned /\ save_ok

\* What a call of process_document leaves behind when save_local may raise
\* after os.makedirs has created the index directory.
ProcessedSaving(file_path, lecture_id, embed_ok, save_ok) ==
  LET out == ProcessedDocuments[file_path, lecture_id, embed_ok]
  IN  /\ process_calls < MaxProcessCalls
      /\ process_calls' = process_calls + 1
      /\ saved_index' =
           IF out.index = None THEN saved_index
           ELSE IF save_ok
           THEN [saved_index EXCEPT ![lecture_id] = out.index]
           ELSE IF saved_index[lecture_id] = None
           THEN [saved_index EXCEPT ![lecture_id] = EmptyIndexDir]
           ELSE saved_index
      /\ last_process' =
           Some([file_path   |-> file_path,
                 lecture_id  |-> lecture_id,
                 content     |-> out.read.content,
                 ocr_invoked |-> out.read.ocr_invoked,
                 returned    |-> ProcessReturned(file_path, lecture_id,
                                                 embed_ok, save_ok)])

\* The lectures the interleaved uploads are for.
ServiceUploadIds == LectureIds

\* The answer reaches the client of request r.
Answered(r, filename, lecture_id, resp) ==
  /\ upload_requests' =
       [upload_requests EXCEPT
          ![r] = [pc |-> "responded", filename |-> filename,
                  lecture_id |-> lecture_id, response |-> resp]]
  /\ upload_status' = resp.status_code
  /\ upload_response' = Some(resp)

\* POST /upload up to the file written to data/raw: the extension and the
\* lecture id are checked.
UploadCheck(r, filename, lecture_id) ==
  /\ upload_requests[r].pc = "idle"
  /\ IF Lower(Suffix(filename)) \notin AllowedExtensions
       \/ lecture_materials[lecture_id] # None
     THEN Answered(r, filename, lecture_id, UploadError(400))
     ELSE /\ upload_requests' =
               [upload_requests EXCEPT
                  ![r] = [pc |-> "checked", filename |-> filename,
                          lecture_id |-> lecture_id]]
          /\ UNCHANGED <<upload_status, upload_response>>
  /\ UNCHANGED <<lecture_materials, saved_index, pending_tasks, last_process,
                 process_calls, task_runs, status_response>>
  /\ UNCHANGED <<genVars, ansVars, unitVars, apiVars, callVars>>

\* The task /upload schedules: the path holds a uuid of the request.
UploadTask(r) ==
  [file_path  |-> upload_requests[r].filename,
   lecture_id |-> upload_requests[r].lecture_id,
   request    |-> r]

\* A commit on a table whose id column is not a key: the row of the id is
\* written whatever is there.
UploadCommitUnconstrained(r) ==
  /\ upload_requests[r].pc = "checked"
  /\ LET req == upload_requests[r]
     IN  /\ lecture_materials' =
              [lecture_materials EXCEPT
                 ![req.lecture_id] = Some([filename |-> req.filename,
                                           status   |-> "processing"])]
         /\ pending_tasks' = pending_tasks \cup {UploadTask(r)}
         /\ Answered(r, req.filename, req.lecture_id,
                     UploadResponse(req.lecture_id, req.filename))
  /\ UNCHANGED <<saved_index, last_process, process_calls, task_runs,
                 status_response>>
  /\ UNCHANGED <<genVars, ansVars, unitVars, apiVars, callVars>>

\* POST /upload from db.add to the answer: the commit fails on the primary
\* key when a row of the id was written meanwhile, and the handler answers
\* 500; otherwise the row is written, the task scheduled and the upload
\* answered.
UploadCommit(r) ==
  /\ upload_requests[r].pc = "checked"
  /\ LET req == upload_requests[r]
     IN  IF lecture_materials[req.lecture_id] # None
         THEN /\ Answered(r, req.filename, req.lecture_id, UploadError(500))
              /\ UNCHANGED <<lecture_materials, pending_tasks>>
         ELSE /\ lecture_materials' =
                   [lecture_materials EXCEPT
                      ![req.lecture_id] = Some([filename |-> req.filename,
                                                status   |-> "processing"])]
              /\ pending_tasks' = pending_tasks \cup {UploadTask(r)}
              /\ Answered(r, req.filename, req.lecture_id,
                          UploadResponse(req.lecture_id, req.filename))
  /\ UNCHANGED <<saved_index, last_process, process_calls, task_runs,
                 status_response>>
  /\ UNCHANGED <<genVars, ansVars, unitVars, apiVars, callVars>>

\* process_document_background up to the return of process_document.
BackgroundProcess(task, embed_ok, save_ok) ==
  /\ task \in pending_tasks
  /\ pending_tasks' = pending_tasks \ {task}
  /\ ProcessedSaving(task.file_path, task.lecture_id, embed_ok, save_ok)
  /\ task_runs' =
       task_runs \cup
         {[task    |-> task,
           success |-> ProcessReturned(task.file_path, task.lecture_id,
                                       embed_ok, save_ok),
           updated |-> FALSE]}
  /\ UNCHANGED <<lecture_materials, upload_status, upload_response,
                 upload_requests, status_response>>
  /\ UNCHANGED <<genVars, ansVars, unitVars, apiVars, callVars>>

\* The status a run writes.
StatusOf(run) == IF run.success THEN "ready" ELSE "error"

\* The row of the lecture with another status.
WithStatus(lecture_id, status) ==
  IF lecture_materials[lecture_id] = None THEN lecture_materials
  ELSE [lecture_materials EXCEPT
          ![lecture_id] =
             Some([filename |-> lecture_materials[lecture_id][1].filename,
                   status   |-> status])]

\* A task that writes "ready" whatever process_document returned.
BackgroundUpdateAlwaysReady(run) ==
  /\ run \in task_runs
  /\ ~run.updated
  /\ task_runs' = (task_runs \ {run}) \cup {[run EXCEPT !.updated = TRUE]}
  /\ lecture_materials' = WithStatus(run.task.lecture_id, "ready")
  /\ UNCHANGED <<saved_index, pending_tasks, upload_status, upload_response,
                 last_process, process_calls, upload_requests,
                 status_response>>
  /\ UNCHANGED <<genVars, ansVars, unitVars, apiVars, callVars>>

\* process_document_background from the return of process_document: the
\* status of the lecture is set to "ready" or "error".
BackgroundUpdate(run) ==
  /\ run \in task_runs
  /\ ~run.updated
  /\ task_runs' = (task_runs \ {run}) \cup {[run EXCEPT !.updated = TRUE]}
  /\ lecture_materials' = WithStatus(run.task.lecture_id, StatusOf(run))
  /\ UNCHANGED <<saved_index, pending_tasks, upload_status, upload_response,
                 last_process, process_calls, upload_requests,
                 status_response>>
  /\ UNCHANGED <<genVars, ansVars, unitVars, apiVars, callVars>>

\* What GET /lectures/{id}/status answers.
StatusAnswer(lecture_id, index_exists) ==
  [status_code  |-> 200,
   lecture_id   |-> lecture_id,
   index_exists |-> index_exists,
   status       |-> IF index_exists THEN "ready" ELSE "not_processed"]

\* A status endpoint that answers from the LectureMaterial row.
GetLectureStatusFromRecord(lecture_id) ==
  /\ status_response' =
       Some(StatusAnswer(lecture_id,
                         /\ lecture_materials[lecture_id] # None
                         /\ lecture_materials[lecture_id][1].status = "ready"))
  /\ UNCHANGED <<docVars, upload_requests, task_runs>>
  /\ UNCHANGED <<genVars, ansVars, unitVars, apiVars, callVars>>

\* GET /lectures/{id}/status
GetLectureStatus(lecture_id) ==
  /\ status_response' =
       Some(StatusAnswer(lecture_id, IndexPathExists(lecture_id)))
  /\ UNCHANGED <<docVars, upload_requests, task_runs>>
  /\ UNCHANGED <<genVars, ansVars, unitVars, apiVars, callVars>>

\* The check of /generate_qa on the lecture and its status.
PassesReadinessGate(lecture_id) ==
  /\ lecture_materials[lecture_id] # None
  /\ lecture_materials[lecture_id][1].status = "ready"

ServiceInit ==
  GenIdle /\ AnsIdle /\ UnitIdle /\ DocIdle /\ ApiIdle /\ SvcIdle /\ CallsIdle

BackgroundProcessStep ==
  \E task \in pending_tasks, embed_ok \in BOOLEAN, save_ok \in BOOLEAN :
    BackgroundProcess(task, embed_ok, save_ok)

BackgroundUpdateStep == \E run \in task_runs : BackgroundUpdate(run)

ServiceNext ==
  \/ \E r \in UploadRequests, filename \in UploadPaths,
        id \in ServiceUploadIds :
       UploadCheck(r, filename, id)
  \/ \E r \in UploadRequests : UploadCommit(r)
  \/ BackgroundProcessStep
  \/ BackgroundUpdateStep
  \/ \E id \in LectureIds : GetLectureStatus(id)

ServiceSpec == ServiceInit /\ [][ServiceNext]_vars

\* FastAPI runs every scheduled task after the response was sent, and a
\* task that has started runs to its end.
ServiceFairSpec ==
  /\ ServiceSpec
  /\ WF_vars(BackgroundProcessStep)
  /\ WF_vars(BackgroundUpdateStep)

\* ------------------------------------------------- claims on the service

\* What one answer of the status endpoint is, given the index directory.
C23_StepOk ==
  \A id \in LectureIds :
    GetLectureStatus(id) =>
      /\ status_response' # None
      /\ status_response'[1].status_code = 200
      /\ status_response'[1].lecture_id = id
      /\ IF saved_index[id] # None
         THEN /\ status_response'[1].index_exists
              /\ status_response'[1].status = "ready"
         ELSE /\ ~status_response'[1].index_exists
              /\ status_response'[1].status = "not_processed"

\* C23: GET /lectures/{id}/status answers 200 with index_exists=True and
\* status "ready" when the index path of the id exists and with
\* index_exists=False and status "not_processed" when it does not, whatever
\* the LectureMaterial rows hold.
C23_StatusFollowsIndexPath == [][C23_StepOk]_vars

\* The endpoint answered "not_processed" for a lecture that has a row.
C23_Witness ==
  /\ status_response # None
  /\ status_response[1].status = "not_processed"
  /\ ~status_response[1].index_exists
  /\ lecture_materials[status_response[1].lecture_id] # None

\* The stored status of a lecture, "absent" when it has no row.
StoredStatus(table, id) ==
  IF table[id] = None THEN "absent" ELSE table[id][1].status

\* The run that writes the status of the lecture in this step.
WritingRun(id) ==
  { run \in task_runs :
      /\ run.task.lecture_id = id
      /\ ~run.updated
      /\ [run EXCEPT !.updated = TRUE] \in task_runs' }

\* The status of a lecture changes only from "processing", to the status
\* the return value of process_document stands for; a row starts as
\* "processing"; the run records what process_document returned.
C24_StepOk ==
  /\ \A id \in LectureIds :
       StoredStatus(lecture_materials', id)
         # StoredStatus(lecture_materials, id) =>
           \/ /\ StoredStatus(lecture_materials, id) = "absent"
              /\ StoredStatus(lecture_materials', id) = "processing"
           \/ /\ StoredStatus(lecture_materials, id) = "processing"
              /\ \E run \in WritingRun(id) :
                   StoredStatus(lecture_materials', id) =
                     IF run.success THEN "ready" ELSE "error"
  /\ \A run \in task_runs' \ task_runs :
       ~run.updated =>
         /\ last_process' # None
         /\ last_process'[1].lecture_id = run.task.lecture_id
         /\ run.success = last_process'[1].returned
  /\ \A run \in task_runs :
       (~run.updated /\ BackgroundUpdate(run)) =>
         StoredStatus(lecture_materials', run.task.lecture_id) =
           IF run.success THEN "ready" ELSE "error"

\* The background task of the lecture has called process_document.
TaskRan(id) == \E run \in task_runs : run.task.lecture_id = id

C25_StepOk ==
  \A id \in LectureIds :
    (/\ GetLectureStatus(id)
     /\ lecture_materials[id] # None
     /\ status_response'[1].status = "ready") =>
       PassesReadinessGate(id)

\* C25: the status endpoint answers "ready" for an uploaded lecture only
\* when the stored status of the lecture is "ready", so that a /generate_qa
\* request sent after the answer passes the check of the status.
C25_ReadyAnswerMeansReadyRow == [][C25_StepOk]_vars

\* C26: a lecture whose stored status is "ready" has an index that
\* save_local wrote for its lecture id.
C26_ReadyHasSavedIndex ==
  \A id \in LectureIds :
    StoredStatus(lecture_materials, id) = "ready" => IndexSaved(id)

\* One lecture is "ready"; the other is "error" with an index directory
\* that holds no index, its save having failed.
C26_Witness ==
  /\ StoredStatus(lecture_materials, 1) = "ready"
  /\ IndexSaved(1)
  /\ StoredStatus(lecture_materials, 2) = "error"
  /\ saved_index[2] = EmptyIndexDir

\* The /upload requests for the lecture that were answered with success.
AcceptedRequests(id) ==
  { r \in UploadRequests :
      /\ upload_requests[r].pc = "responded"
      /\ upload_requests[r].lecture_id = id
      /\ upload_requests[r].response.success }

\* The background tasks of the lecture, scheduled or run.
TasksOf(id) ==
  { task \in pending_tasks : task.lecture_id = id }
    \cup { run.task : run \in { x \in task_runs : x.task.lecture_id = id } }

\* The requests that passed the check of the existing lecture side by side.
RacingRequests(id) ==
  { r \in UploadRequests :
      /\ upload_requests[r].pc \in {"checked", "responded"}
      /\ upload_requests[r].lecture_id = id
      /\ (upload_requests[r].pc = "responded" =>
            upload_requests[r].response.status_code \in {200, 500}) }

\* C28: whatever the interleaving of the /upload requests for one lecture
\* id, at most one of them writes the LectureMaterial row of the id, the
\* row stays the one that was written, and at most one background task,
\* hence one call of process_document, exists for the id.
C28_OneRowOneTask ==
  \A id \in LectureIds :
    /\ Cardinality(AcceptedRequests(id)) <= 1
    /\ Cardinality(TasksOf(id)) <= 1
    /\ \A r \in AcceptedRequests(id) :
         /\ lecture_materials[id] # None
         /\ lecture_materials[id][1].filename = upload_requests[r].filename
    /\ (AcceptedRequests(id) = {} => lecture_materials[id] = None)

\* Two requests for lecture 1 both passed the check; one wrote the row and
\* the other failed on the primary key; the one task has run.
C28_Witness ==
  /\ Cardinality(RacingRequests(1)) = 2
  /\ \A r \in UploadRequests : upload_requests[r].pc = "responded"
  /\ \E r \in UploadRequests :
       upload_requests[r].response.status_code = 500
  /\ Cardinality(AcceptedRequests(1)) = 1
  /\ process_calls = 1
  /\ \A run \in task_runs : run.updated

\* ------------------------------------- generate_qa with an empty type list

\* A finished call that was given question_types = [] and an index that is
\* on disk and loads.
EmptyTypesCallDone ==
  /\ pc = "done"
  /\ arg_question_types = Some(<<>>)
  /\ index_state = "saved"

\* The call returned [] without raising or calling the model, and every
\* iteration was counted as an attempt.
EmptyTypesResult ==
  /\ ~escaped
  /\ returned = <<>>
  /\ model_calls = 0
  /\ attempts = iterations

\* The statement without the time budget: the loop always runs to the cap.
C30_Original_AlwaysRunsToTheCap ==
  EmptyTypesCallDone =>
    /\ EmptyTypesResult
    /\ attempts = Min(AttemptsMultiplier * num_questions, MaxAttemptsCap)

\* C30: generate_qa called with an empty question_types list on an index
\* that loads returns [] without raising and without a model call, every
\* iteration failing at the choice of the type and counting as an attempt;
\* the loop stops after min(2 x num_questions, 10) attempts, unless loading
\* the index took more than 120 seconds, in which case it stops at its
\* first timeout check with no attempt made.
C30_EmptyTypesReturnsEmpty ==
  EmptyTypesCallDone =>
    /\ EmptyTypesResult
    /\ exit_path \in {"loop_end", "timeout"}
    /\ exit_path = "loop_end" =>
         /\ attempts = Min(AttemptsMultiplier * num_questions, MaxAttemptsCap)
         /\ ~TimedOut(elapsed)
    /\ exit_path = "timeout" => (attempts = 0 /\ TimedOut(elapsed))

\* A call for six questions stopped at the cap of ten attempts.
C30_Witness ==
  /\ EmptyTypesCallDone
  /\ num_questions = MaxQuestions
  /\ exit_path = "loop_end"
  /\ attempts = MaxAttemptsCap
  /\ last_event = "raised"

\* ------------------------- generate_qa with a model that never repeats itself

\* Every num_questions the request model of /generate_qa accepts.
AcceptedNumQuestions == NumQuestionsMin..NumQuestionsMax

\* A model call takes no time, or more than the whole budget.
FreshLatencies == {0, MaxLatency}

\* A call on a saved index with the default types.
FreshInit ==
  /\ pc = "start"
  /\ index_state = "saved"
  /\ num_questions \in AcceptedNumQuestions
  /\ difficulty \in Difficulties
  /\ arg_question_types = None
  /\ question_types = <<>>
  /\ generated_qas = <<>>
  /\ generated_questions = {}
  /\ max_attempts = 0
  /\ attempts = 0
  /\ question_type = ""
  /\ elapsed = 0
  /\ returned = <<>>
  /\ escaped = FALSE
  /\ exit_path = "none"
  /\ model_calls = 0
  /\ iterations = 0
  /\ last_event = "none"
  /\ last_key = <<>>
  /\ AnsIdle /\ UnitIdle /\ DocIdle /\ ApiIdle /\ SvcIdle /\ CallsIdle

\* The model answers the attempt with a question it has not given before.
FreshAttempt(lat) == AttemptReplies(FreshReply(attempts), lat)

FreshNext ==
  \/ LoadIndex(0)
  \/ LoopExit
  \/ Timeout
  \/ IterStart
  \/ \E lat \in FreshLatencies : FreshAttempt(lat)

FreshSpec == FreshInit /\ [][FreshNext]_vars

\* The call has returned within its time budget, every reply having been
\* parsed and accepted.
FreshCallDone ==
  /\ pc = "done"
  /\ exit_path = "loop_end"
  /\ Len(returned) = attempts

\* C27: for every num_questions from 1 to 20, a call whose every model
\* reply parses to a question with a dedup key not seen before returns
\* exactly num_questions items.
C27_FreshRepliesFillTheBatch ==
  FreshCallDone => Len(returned) = num_questions

\* ------------------------------------------ generate_qa calls side by side

\* What a model call of one of the calls meets: a reply or an exception,
\* and the time the call waited for it.
CallEvents ==
  { [kind |-> "reply", reply |-> Str(ReplyMC),    lat |-> 0],
    [kind |-> "reply", reply |-> Str(ReplyLongB), lat |-> 0],
    [kind |-> "reply", reply |-> Str(ReplyCase1), lat |-> 0],
    [kind |-> "raise", reply |-> NotStr,          lat |-> 0],
    [kind |-> "raise", reply |-> NotStr,          lat |-> MaxLatency] }

\* The arguments of the calls: two questions for the first, one for the
\* others, on one lecture and with the default types.
CallNumQuestions(c) == IF c = 1 THEN 2 ELSE 1
CallDifficulty == "medium"

\* The index of the lecture the calls read.
CallIndex ==
  [id \in LectureIds |->
     IF id = 1 THEN ProcessedDocuments[<<"a",".","t","x","t">>, 1, TRUE].index
     ELSE None]

\* A set of seen keys that lives on the shared engine.
SeenKeysShared(cs, c) == UNION { cs[d].generated_questions : d \in CallIds }

\* generated_questions, a local of the call.
SeenKeys(cs, c) == cs[c].generated_questions

\* The accepted list and the seen keys after the attempt met the event.
AfterAttempt(qas, seen, qt, ev) ==
  LET parsed == IF ev.kind = "raise" THEN None
                ELSE ParsedReplies[ev.reply, CallDifficulty, qt]
  IN  IF parsed # None /\ parsed[1].question # <<>>
         /\ Accepts(QuestionKey(parsed[1].question), seen)
      THEN [qas  |-> Append(qas, [parsed[1] EXCEPT !.question_type = qt]),
            seen |-> seen \cup {QuestionKey(parsed[1].question)}]
      ELSE [qas |-> qas, seen |-> seen]

\* The call starts: the clock, the index, the counters.
CallStart(c) ==
  /\ calls[c].pc = "idle"
  /\ saved_index[1] # None
  /\ calls' = [calls EXCEPT
                 ![c] = [IdleCall EXCEPT
                           !.pc = "loop",
                           !.num_questions = CallNumQuestions(c),
                           !.max_attempts = MaxAttempts(CallNumQuestions(c))]]
  /\ UNCHANGED <<genVars, ansVars, unitVars, docVars, apiVars, svcVars>>

\* The loop of the call ends, by its condition or by the timeout check.
CallReturn(c) ==
  LET st == calls[c]
  IN  /\ st.pc = "loop"
      /\ \/ ~LoopCondition(st.generated_qas, st.num_questions, st.attempts,
                           st.max_attempts)
         \/ TimedOut(st.elapsed)
      /\ calls' = [calls EXCEPT ![c].pc = "done",
                                ![c].returned = st.generated_qas]
      /\ UNCHANGED <<genVars, ansVars, unitVars, docVars, apiVars, svcVars>>

\* The head of an iteration of the call.
CallIterStart(c) ==
  LET st == calls[c]
  IN  /\ st.pc = "loop"
      /\ LoopCondition(st.generated_qas, st.num_questions, st.attempts,
                       st.max_attempts)
      /\ ~TimedOut(st.elapsed)
      /\ calls' = [calls EXCEPT
                     ![c].pc = "invoke",
                     ![c].attempts = st.attempts + 1,
                     ![c].question_type =
                        RotatedType(DefaultQuestionTypes, Len(st.generated_qas))]
      /\ UNCHANGED <<genVars, ansVars, unitVars, docVars, apiVars, svcVars>>

\* The model call of the call comes back.
CallAttempt(c, ev) ==
  LET st  == calls[c]
      out == AfterAttempt(st.generated_qas, SeenKeys(calls, c),
                          st.question_type, ev)
  IN  /\ st.pc = "invoke"
      /\ calls' = [calls EXCEPT
                     ![c].pc = "loop",
                     ![c].elapsed = st.elapsed + ev.lat,
                     ![c].events = Append(st.events, ev),
                     ![c].generated_qas = out.qas,
                     ![c].generated_questions =
                        IF out.qas = st.generated_qas
                        THEN st.generated_questions
                        ELSE st.generated_questions
                               \cup {QuestionKey(out.qas[Len(out.qas)].question)}]
      /\ UNCHANGED <<genVars, ansVars, unitVars, docVars, apiVars, svcVars>>

\* The lecture is ready and its index saved; no call has started.
CallsInit ==
  /\ GenIdle /\ AnsIdle /\ UnitIdle /\ ApiIdle /\ SvcIdle /\ CallsIdle
  /\ lecture_materials =
       [id \in LectureIds |->
          IF id = 1 THEN Some([filename |-> <<"a",".","t","x","t">>,
                               status   |-> "ready"])
          ELSE None]
  /\ saved_index = CallIndex
  /\ pending_tasks = {}
  /\ upload_status = 0
  /\ upload_response = None
  /\ last_process = None
  /\ process_calls = 0

CallsNext ==
  \/ \E c \in CallIds : CallStart(c)
  \/ \E c \in CallIds : CallReturn(c)
  \/ \E c \in CallIds : CallIterStart(c)
  \/ \E c \in CallIds, ev \in CallEvents : CallAttempt(c, ev)

CallsSpec == CallsInit /\ [][CallsNext]_vars

\* generate_qa run alone from the top of its loop on the events, in order.
RECURSIVE GenerateAlone(_, _, _, _, _, _)
GenerateAlone(n, qas, seen, att, t, events) ==
  IF \/ ~LoopCondition(qas, n, att, MaxAttempts(n))
     \/ TimedOut(t)
     \/ events = <<>>
  THEN qas
  ELSE LET ev  == Head(events)
           out == AfterAttempt(qas, seen,
                               RotatedType(DefaultQuestionTypes, Len(qas)), ev)
       IN  GenerateAlone(n, out.qas, out.seen, att + 1, t + ev.lat,
                         Tail(events))

\* C29: generate_qa calls that run side by side on the one engine do not
\* interfere: what a call returns is what generate_qa returns when it runs
\* alone and its model calls meet the same replies, exceptions and waiting
\* times in the same order; and no call changes the saved index.
C29_CallsDoNotInterfere ==
  /\ \A c \in CallIds :
       calls[c].pc = "done" =>
         calls[c].returned =
           GenerateAlone(calls[c].num_questions, <<>>, {}, 0, 0,
                         calls[c].events)
  /\ saved_index = CallIndex

\* Both calls have returned, the second one the question the first one
\* had accepted as well, and both after an attempt that was not accepted.
C29_Witness ==
  /\ \A c \in CallIds : calls[c].pc = "done"
  /\ Len(calls[1].returned) = 2
  /\ Len(calls[2].returned) = 1
  /\ calls[2].returned[1].question = calls[1].returned[1].question
  /\ calls[1].attempts = 3
  /\ calls[2].attempts = 2

====
